---- MODULE Spec2Model ----
(***************************************************************************)
(* Model of the slog logging core (eehut/simple_log):                      *)
(*   - the File sink, its SharedFileState and rotation (sink_file.cpp),    *)
(*   - the registry's level-rule engine (slog_logger.cpp),                 *)
(*   - per-tag rate limiting (slog_logger.cpp).                            *)
(* Each part has its own specification over the same variables.            *)
(***************************************************************************)
EXTENDS Integers, Sequences, FiniteSets, TLC

\* ------------------------------------------------------------------------
\* LogLevel (slog.hpp)
\* ------------------------------------------------------------------------
Trace == 0
Debug == 1
Info == 2
Warning == 3
Error == 4
Off == 5
Unknown == Off + 2

\* log_level_name: the text printed between '<' and '>' in a line
log_level_name(level) ==
    CASE level = Trace   -> <<"T", "R", "A", "C", "E">>
      [] level = Debug   -> <<"D", "E", "B", "U", "G">>
      [] level = Info    -> <<"I", "N", "F", "O">>
      [] level = Warning -> <<"W", "A", "R", "N">>
      [] level = Error   -> <<"E", "R", "R", "O", "R">>
      [] OTHER           -> <<>>

\* ------------------------------------------------------------------------
\* Bounds of the file model
\* ------------------------------------------------------------------------
MaxCalls == 3

\* threads, and the File sinks (one per logger) that target the path P
Procs == {1, 2}
Sinks == {1, 2}
NoProc == 0

\* thread p logs through File sink ProcSink(p): a sink is shared by the
\* threads that use its logger
ProcSink(p) == ((p - 1) % Cardinality(Sinks)) + 1

\* length of the logger names given to the sinks by setup(): "logger1", ...
SinkNameLen == 7

\* constructor arguments of the File sinks of one run
FileSizeChoices == {0, 50, 100}
FileCountChoices == {0, 1, 2}

\* generations P (0), P.1, ... that the directory can name
Gens == 0..(Cardinality(FileCountChoices))

\* the log calls issued by the threads
CallLevels == {Debug, Info}
MsgLens == {3, 13}
FileSinkLevel == Info

\* ------------------------------------------------------------------------
\* State
\* ------------------------------------------------------------------------
VARIABLES
    cfg,          \* File(level, filepath, max_file_size, max_files, flush_on_write)
    sinkUp,       \* sink s holds a file_state_ (setup done, sink alive)
    file_state,   \* the SharedFileState of the path and its stream buffer
    file_mutex,   \* holder of the path's mutex
    disk,         \* directory: generation g (0 = P, g = P.g) -> file
    pc,           \* position of each thread inside File::log
    cur,          \* the call a thread is executing
    calls,        \* number of log calls that reached a sink's stream so far
    accepted,     \* ghost: ids of the calls that passed the level check
    discarded,    \* ghost: chunks of the files deleted by fs::remove, with
                  \*        the generation they were deleted from
    clobbered,    \* ghost: chunks of the files replaced by fs::rename
    rotations,    \* ghost: completed rotations
    registry,     \* LoggerRegistry::registry_: name -> Logger
    level_rules,  \* LoggerRegistry::level_rules_: exact name -> level
    regex_level_rules, \* LoggerRegistry::regex_level_rules_, in insertion order
    last,         \* ghost: the registry operation that returned last
    lim_logger,   \* the Logger on which log_limited is called
    limited_items, \* Logger::limited_items_: tag -> (allowed, count)
    win,          \* ghost: per tag, the calls since its counter was last set
    lastcall,     \* ghost: the Logger operation that returned last
    sink_objs,    \* the LoggerSink objects made so far, by reference
    logger_objs,  \* the Logger objects made so far, by reference
    registry_,    \* LoggerRegistry::registry_: name -> reference to a Logger
    default_logger_, \* LoggerRegistry::default_logger_: a reference or NoRef
    reg_order,    \* ghost: the registered names, earliest registration first
    ret,          \* ghost: the registry call that returned last, its result
    lock_order,   \* ghost: the calls in the order they took the path's mutex
    thr,          \* per thread: the public call it is in and its position
    mtx,          \* per mutex: the thread that holds it, or NoProc
    state_objs,   \* the SharedFileState objects made so far, by reference
    file_states,  \* File::get_shared_file_state's map: path -> weak reference
    file_sinks,   \* the File sinks: path, file_state_ reference, alive
    limited_items_ \* by reference: Logger -> its limited_items_, if not empty

fvars == <<cfg, sinkUp, file_state, file_mutex, disk, pc, cur, calls,
           accepted, discarded, clobbered, rotations, lock_order>>

rvars == <<registry, level_rules, regex_level_rules, last>>

lvars == <<lim_logger, limited_items, win, lastcall>>

hvars == <<sink_objs, logger_objs, registry_, default_logger_, reg_order,
           ret>>

cvars == <<thr, mtx>>

svars == <<state_objs, file_states, file_sinks, limited_items_>>

vars == <<fvars, rvars, lvars, hvars, cvars, svars>>

NoFile == [exists |-> FALSE, data |-> <<>>]
EmptyFile == [exists |-> TRUE, data |-> <<>>]

NoState == [live |-> FALSE, is_open |-> FALSE, current_size |-> 0,
            max_file_size |-> 0, max_files |-> 0, flush_on_write |-> TRUE,
            buffer |-> <<>>]

NoCall == [level |-> Off, len |-> 0, k |-> 0, i |-> 0]

\* the parts of the state a specification does not exercise
NoRegistry == <<>>
NoLogger == [name |-> <<>>, sinks |-> <<>>, valid |-> FALSE,
             min_level |-> Off, max_level |-> Trace]
NoOp == [op |-> "none"]
NoRef == 0
NoLimited == [op |-> "none", n |-> 0]

RECURSIVE SumSizes(_)
SumSizes(s) == IF s = <<>> THEN 0 ELSE Head(s).size + SumSizes(Tail(s))

\* std::filesystem::file_size
file_size(g) == SumSizes(disk[g].data)

\* ------------------------------------------------------------------------
\* File::format_log_message: "YYYY-MM-DD HH:MM:SS.mmm <LEVEL> (name) msg\n"
\* ------------------------------------------------------------------------
TimestampLen == 23

HeaderSize(level) ==
    TimestampLen + 2 + Len(log_level_name(level)) + 3 + SinkNameLen + 2

BodySize(len) == len + 1

format_log_message(level, len) == HeaderSize(level) + BodySize(len)

\* the two pieces in which the stream receives line k, written by thread p
Chunk(p, c, part) ==
    [p |-> p, k |-> c.k, part |-> part,
     size |-> IF part = 1 THEN HeaderSize(c.level) ELSE BodySize(c.len)]

\* ------------------------------------------------------------------------
\* The stream of the SharedFileState (std::ofstream opened with ios::app)
\* ------------------------------------------------------------------------
\* (mutant) closing the stream drops what it still buffers
FlushedDisk_buffer_dropped == disk

\* file.flush(): the buffered chunks reach the file named P
FlushedDisk == [disk EXCEPT ![0].data = @ \o file_state.buffer]

\* flush_on_write decides whether File::log flushes after the write
FlushAfterWrite(st) == st.flush_on_write

\* the rotation test of File::log
NeedRotate(st, size) ==
    st.max_file_size > 0 /\ st.current_size + size > st.max_file_size

\* (mutant) the byte counter is not advanced by a write
SizeAfterWrite_not_counted(current_size, size) == current_size

\* current_size after a line of the given size was written
SizeAfterWrite(current_size, size) == current_size + size

\* (mutant) the lock never blocks
MutexFree_never_blocks == TRUE

\* std::lock_guard on get_file_mutex(filepath_): blocks while it is held
MutexFree == file_mutex = NoProc

\* (mutant) the stream is left closed after the renames
Reopened_left_closed(st) == [st EXCEPT !.current_size = 0]

\* rotate_files: file.open(filepath_, app) and current_size = 0
Reopened(st) == [st EXCEPT !.is_open = TRUE, !.current_size = 0]

\* (mutant) the rename loop starts one generation too late
RenameFrom_one_less(st) == IF st.max_files > 0 THEN st.max_files - 1 ELSE 0

\* first index of the rename loop of rotate_files
RenameFrom(st) == st.max_files

\* ------------------------------------------------------------------------
\* File::setup and the end of a sink's life
\* ------------------------------------------------------------------------
\* get_shared_file_state: attach to the live state or create a new one
get_shared_file_state ==
    IF file_state.live THEN file_state
    ELSE [NoState EXCEPT !.live = TRUE,
                         !.max_file_size = cfg.max_file_size,
                         !.max_files = cfg.max_files,
                         !.flush_on_write = cfg.flush_on_write]

\* File::setup(name), run under the path's mutex
Setup(s) ==
    /\ ~sinkUp[s]
    /\ MutexFree
    /\ LET st == get_shared_file_state IN
       IF ~st.is_open
       THEN /\ file_state' =
                 [st EXCEPT !.current_size =
                                IF disk[0].exists THEN file_size(0) ELSE @,
                            !.is_open = TRUE]
            /\ disk' = IF disk[0].exists THEN disk
                       ELSE [disk EXCEPT ![0] = EmptyFile]
       ELSE /\ file_state' = st
            /\ disk' = disk
    /\ sinkUp' = [sinkUp EXCEPT ![s] = TRUE]
    /\ UNCHANGED <<cfg, file_mutex, pc, cur, calls, accepted, discarded,
                   clobbered, rotations, lock_order>>
    /\ UNCHANGED <<rvars, lvars, hvars, cvars, svars>>

\* ~File: the sink drops its reference; the last owner destroys the
\* SharedFileState, whose stream flushes and closes
Release(s) ==
    /\ sinkUp[s]
    /\ \A p \in Procs : ProcSink(p) = s => pc[p] = "idle"
    /\ sinkUp' = [sinkUp EXCEPT ![s] = FALSE]
    /\ IF \E t \in Sinks \ {s} : sinkUp[t]
       THEN UNCHANGED <<file_state, disk>>
       ELSE /\ disk' = IF file_state.is_open THEN FlushedDisk ELSE disk
            /\ file_state' = NoState
    /\ UNCHANGED <<cfg, file_mutex, pc, cur, calls, accepted, discarded,
                   clobbered, rotations, lock_order>>
    /\ UNCHANGED <<rvars, lvars, hvars, cvars, svars>>

\* ------------------------------------------------------------------------
\* File::log(level, msg), step by step
\* ------------------------------------------------------------------------
\* level check, file_state_ check and formatting (before the lock)
LogCall(p, level, len) ==
    /\ pc[p] = "idle"
    /\ calls < MaxCalls
    /\ IF level < FileSinkLevel \/ ~sinkUp[ProcSink(p)]
       THEN UNCHANGED <<pc, cur, accepted, calls>>
       ELSE /\ calls' = calls + 1
            /\ pc' = [pc EXCEPT ![p] = "lock"]
            /\ cur' = [cur EXCEPT ![p] =
                          [level |-> level, len |-> len, k |-> calls', i |-> 0]]
            /\ accepted' = accepted \cup {calls'}
    /\ UNCHANGED <<cfg, sinkUp, file_state, file_mutex, disk, discarded,
                   clobbered, rotations, lock_order>>
    /\ UNCHANGED <<rvars, lvars, hvars, cvars, svars>>

\* lock_guard, then the rotation test
Lock(p) ==
    /\ pc[p] = "lock"
    /\ MutexFree
    /\ file_mutex' = p
    /\ lock_order' = Append(lock_order, cur[p].k)
    /\ pc' = [pc EXCEPT ![p] =
                 IF NeedRotate(file_state,
                               format_log_message(cur[p].level, cur[p].len))
                 THEN "rot_close" ELSE "write1"]
    /\ UNCHANGED <<cfg, sinkUp, file_state, disk, cur, calls, accepted,
                   discarded, clobbered, rotations>>
    /\ UNCHANGED <<rvars, lvars, hvars, cvars, svars>>

\* rotate_files: flush and close the stream
RotClose(p) ==
    /\ pc[p] = "rot_close"
    /\ IF file_state.is_open
       THEN /\ disk' = FlushedDisk
            /\ file_state' = [file_state EXCEPT !.buffer = <<>>,
                                                !.is_open = FALSE]
       ELSE UNCHANGED <<disk, file_state>>
    /\ pc' = [pc EXCEPT ![p] = "rot_remove"]
    /\ UNCHANGED <<cfg, sinkUp, file_mutex, cur, calls, accepted, discarded,
                   clobbered, rotations, lock_order>>
    /\ UNCHANGED <<rvars, lvars, hvars, cvars, svars>>

\* rotate_files: delete P.<max_files>
RotRemove(p) ==
    /\ pc[p] = "rot_remove"
    /\ LET n == file_state.max_files IN
       IF n > 0 /\ disk[n].exists
       THEN /\ disk' = [disk EXCEPT ![n] = NoFile]
            /\ discarded' = discarded \o
                   [j \in DOMAIN disk[n].data |->
                       [k |-> disk[n].data[j].k, part |-> disk[n].data[j].part,
                        gen |-> n]]
       ELSE UNCHANGED <<disk, discarded>>
    /\ cur' = [cur EXCEPT ![p].i = RenameFrom(file_state)]
    /\ pc' = [pc EXCEPT ![p] = "rot_rename"]
    /\ UNCHANGED <<cfg, sinkUp, file_state, file_mutex, calls, accepted,
                   clobbered, rotations, lock_order>>
    /\ UNCHANGED <<rvars, lvars, hvars, cvars, svars>>

\* rotate_files: one turn of the rename loop, i from max_files down to 1
\* (fs::rename replaces an existing target)
RotRename(p) ==
    /\ pc[p] = "rot_rename"
    /\ cur[p].i > 0
    /\ LET i == cur[p].i
           old == i - 1 IN
       IF disk[old].exists
       THEN /\ disk' = [disk EXCEPT ![i] = disk[old], ![old] = NoFile]
            /\ clobbered' = clobbered \o disk[i].data
       ELSE UNCHANGED <<disk, clobbered>>
    /\ cur' = [cur EXCEPT ![p].i = @ - 1]
    /\ UNCHANGED <<cfg, sinkUp, file_state, file_mutex, pc, calls, accepted,
                   discarded, rotations, lock_order>>
    /\ UNCHANGED <<rvars, lvars, hvars, cvars, svars>>

\* rotate_files: reopen P in append mode, current_size = 0
RotOpen(p) ==
    /\ pc[p] = "rot_rename"
    /\ cur[p].i = 0
    /\ disk' = IF disk[0].exists THEN disk ELSE [disk EXCEPT ![0] = EmptyFile]
    /\ file_state' = Reopened(file_state)
    /\ rotations' = rotations + 1
    /\ pc' = [pc EXCEPT ![p] = "write1"]
    /\ UNCHANGED <<cfg, sinkUp, file_mutex, cur, calls, accepted, discarded,
                   clobbered, lock_order>>
    /\ UNCHANGED <<rvars, lvars, hvars, cvars, svars>>

\* file << formatted_msg, first piece; a full stream buffer spills to disk
Write1(p, spill) ==
    /\ pc[p] = "write1"
    /\ IF file_state.is_open
       THEN LET buf == Append(file_state.buffer, Chunk(p, cur[p], 1)) IN
            IF spill
            THEN /\ disk' = [disk EXCEPT ![0].data = @ \o buf]
                 /\ file_state' = [file_state EXCEPT !.buffer = <<>>]
            ELSE /\ disk' = disk
                 /\ file_state' = [file_state EXCEPT !.buffer = buf]
       ELSE UNCHANGED <<disk, file_state>>
    /\ pc' = [pc EXCEPT ![p] = "write2"]
    /\ UNCHANGED <<cfg, sinkUp, file_mutex, cur, calls, accepted, discarded,
                   clobbered, rotations, lock_order>>
    /\ UNCHANGED <<rvars, lvars, hvars, cvars, svars>>

\* rest of the line, current_size update, flush policy, end of the lock
Write2(p) ==
    /\ pc[p] = "write2"
    /\ IF file_state.is_open
       THEN LET buf == Append(file_state.buffer, Chunk(p, cur[p], 2))
                sz == SizeAfterWrite(file_state.current_size,
                          format_log_message(cur[p].level, cur[p].len)) IN
            IF FlushAfterWrite(file_state)
            THEN /\ disk' = [disk EXCEPT ![0].data = @ \o buf]
                 /\ file_state' = [file_state EXCEPT !.buffer = <<>>,
                                                     !.current_size = sz]
            ELSE /\ disk' = disk
                 /\ file_state' = [file_state EXCEPT !.buffer = buf,
                                                     !.current_size = sz]
       ELSE UNCHANGED <<disk, file_state>>
    /\ pc' = [pc EXCEPT ![p] = "idle"]
    /\ cur' = [cur EXCEPT ![p] = NoCall]
    /\ file_mutex' = IF file_mutex = p THEN NoProc ELSE file_mutex
    /\ UNCHANGED <<cfg, sinkUp, calls, accepted, discarded, clobbered,
                   rotations, lock_order>>
    /\ UNCHANGED <<rvars, lvars, hvars, cvars, svars>>

FileInit ==
    /\ cfg \in [max_file_size : FileSizeChoices, max_files : FileCountChoices,
                flush_on_write : BOOLEAN]
    /\ sinkUp = [s \in Sinks |-> FALSE]
    /\ file_state = NoState
    /\ file_mutex = NoProc
    /\ disk = [g \in Gens |-> NoFile]
    /\ pc = [p \in Procs |-> "idle"]
    /\ cur = [p \in Procs |-> NoCall]
    /\ calls = 0
    /\ accepted = {}
    /\ discarded = <<>>
    /\ clobbered = <<>>
    /\ rotations = 0
    /\ lock_order = <<>>
    /\ thr = <<>>
    /\ mtx = <<>>
    /\ state_objs = <<>>
    /\ file_states = <<>>
    /\ file_sinks = <<>>
    /\ limited_items_ = <<>>
    /\ registry = NoRegistry
    /\ level_rules = <<>>
    /\ regex_level_rules = <<>>
    /\ last = NoOp
    /\ lim_logger = NoLogger
    /\ limited_items = <<>>
    /\ win = <<>>
    /\ lastcall = NoLimited
    /\ sink_objs = <<>>
    /\ logger_objs = <<>>
    /\ registry_ = <<>>
    /\ default_logger_ = NoRef
    /\ reg_order = <<>>
    /\ ret = NoOp

NextFile ==
    \/ \E s \in Sinks : Setup(s)
    \/ \E s \in Sinks : Release(s)
    \/ \E p \in Procs, level \in CallLevels, len \in MsgLens :
           LogCall(p, level, len)
    \/ \E p \in Procs : Lock(p)
    \/ \E p \in Procs : RotClose(p)
    \/ \E p \in Procs : RotRemove(p)
    \/ \E p \in Procs : RotRename(p)
    \/ \E p \in Procs : RotOpen(p)
    \/ \E p \in Procs, spill \in BOOLEAN : Write1(p, spill)
    \/ \E p \in Procs : Write2(p)

SpecFile == FileInit /\ [][NextFile]_vars

\* ------------------------------------------------------------------------
\* Properties of the File sink
\* ------------------------------------------------------------------------
RotSteps == {"rot_close", "rot_remove", "rot_rename"}
InLock == RotSteps \cup {"write1", "write2"}

AllIdle == \A p \in Procs : pc[p] = "idle"
Rotating == \E p \in Procs : pc[p] \in RotSteps

\* ids of the lines found in a chunk sequence
LineIds(data) == {data[i].k : i \in DOMAIN data}

\* the chunk sequence is a sequence of complete lines: header then body of
\* the same line of the same writer, nothing in between
WholeLines(data) ==
    /\ Len(data) % 2 = 0
    /\ \A i \in DOMAIN data :
          IF i % 2 = 1
          THEN data[i].part = 1
          ELSE /\ data[i].part = 2
               /\ data[i].k = data[i - 1].k
               /\ data[i].p = data[i - 1].p

\* the file holds exactly the lines ids, each complete and once
HoldsExactly(data, ids) ==
    /\ WholeLines(data)
    /\ LineIds(data) = ids
    /\ Len(data) = 2 * Cardinality(ids)

\* what the stream has received for P: the file and the unflushed buffer
LiveData == disk[0].data \o file_state.buffer

\* lines whose File::log call has returned
Finished == accepted \ {cur[p].k : p \in Procs}

\* number of places (generation files, buffer, deleted files) holding line k
\* as an adjacent header/body pair
PairAt(data, k) ==
    {i \in DOMAIN data : /\ i < Len(data)
                          /\ data[i].k = k /\ data[i].part = 1
                          /\ data[i + 1].k = k /\ data[i + 1].part = 2}

ChunksOf(data, k) == {i \in DOMAIN data : data[i].k = k}

Everywhere ==
    [g \in Gens |-> IF g = 0 THEN LiveData ELSE disk[g].data]

\* C1 (as stated): without rotation, once every thread has returned from
\* its log calls the file P holds exactly the admitted lines, each complete
\* and exactly once.
C1_AllLinesInFile ==
    (cfg.max_file_size = 0 /\ AllIdle) => HoldsExactly(disk[0].data, accepted)

\* C1 (amended): the same, for a state created with flush_on_write, or once
\* the shared state has been closed by its last owner; with flush_on_write
\* off the lines are complete and unique in file plus stream buffer.
C1_AllLinesInFileFlushed ==
    (cfg.max_file_size = 0 /\ AllIdle) =>
        /\ HoldsExactly(LiveData, accepted)
        /\ (cfg.flush_on_write \/ ~file_state.live) =>
               HoldsExactly(disk[0].data, accepted)

C1_Witness ==
    /\ cfg.max_file_size = 0 /\ cfg.flush_on_write /\ AllIdle
    /\ file_state.live
    /\ Cardinality(accepted) = MaxCalls
    /\ Len(disk[0].data) = 2 * MaxCalls
    /\ \E i, j \in DOMAIN disk[0].data : disk[0].data[i].p # disk[0].data[j].p

TailLine(data) ==
    IF data = <<>> THEN 0
    ELSE LET n == Len(data) IN
         IF n > 1 /\ data[n - 1].k = data[n].k
         THEN data[n - 1].size + data[n].size
         ELSE data[n].size

WithinBound(data, S) == SumSizes(data) <= S + TailLine(data)

ExistingGens == {g \in Gens : disk[g].exists}
MinOf(a, b) == IF a < b THEN a ELSE b

RECURSIVE ReadFrom(_)
ReadFrom(g) ==
    IF g = 0 THEN LiveData ELSE disk[g].data \o ReadFrom(g - 1)

OldestGen == Cardinality(FileCountChoices)

IsHeader(c) == c.part = 1

\* the lines of a chunk sequence, one entry per line: its id and its writer
LinesOf(data) ==
    LET h == SelectSeq(data, IsHeader) IN
    [i \in DOMAIN h |-> [k |-> h[i].k, p |-> h[i].p]]

\* the ids of the lines of a chunk sequence, in its order
HeaderIds(data) ==
    LET h == SelectSeq(data, IsHeader) IN [i \in DOMAIN h |-> h[i].k]

\* the calls whose line the stream has begun to receive, in the order in
\* which they took the mutex: all of lock_order but a holder that has not
\* written yet
BeforeWrite == RotSteps \cup {"write1"}

Started ==
    IF \E p \in Procs : file_mutex = p /\ pc[p] \in BeforeWrite
    THEN SubSeq(lock_order, 1, Len(lock_order) - 1)
    ELSE lock_order

Sink(level) == [level |-> level, rule_level |-> Unknown]

\* LoggerSink::get_level
sink_get_level(sk) == IF sk.rule_level # Unknown THEN sk.rule_level ELSE sk.level

\* LoggerSink::set_rule_level
sink_set_rule_level(sk, level) == [sk EXCEPT !.rule_level = level]

\* Logger::update_filter_level: min and max over the sinks' levels
RECURSIVE MinLevel(_, _)
MinLevel(sinks, acc) ==
    IF sinks = <<>> THEN acc
    ELSE MinLevel(Tail(sinks),
                  IF sink_get_level(Head(sinks)) < acc
                  THEN sink_get_level(Head(sinks)) ELSE acc)

RECURSIVE MaxLevel(_, _)
MaxLevel(sinks, acc) ==
    IF sinks = <<>> THEN acc
    ELSE MaxLevel(Tail(sinks),
                  IF sink_get_level(Head(sinks)) > acc
                  THEN sink_get_level(Head(sinks)) ELSE acc)

\* (mutant) only the first sink is looked at
update_filter_level_first_sink(lg) ==
    [lg EXCEPT !.min_level = sink_get_level(lg.sinks[1]),
               !.max_level = sink_get_level(lg.sinks[1])]

update_filter_level(lg) ==
    [lg EXCEPT !.min_level = MinLevel(lg.sinks, Off),
               !.max_level = MaxLevel(lg.sinks, Trace)]

\* Logger::Logger(name, sinks) with sinks whose setup succeeds
Logger(name, sinks) ==
    update_filter_level([name |-> name, sinks |-> sinks, valid |-> TRUE,
                         min_level |-> Off, max_level |-> Trace])

\* Logger::get_level
get_level(lg) == IF lg.sinks = <<>> THEN Off ELSE lg.min_level

\* Logger::set_rule_level
set_rule_level(lg, level) ==
    update_filter_level(
        [lg EXCEPT !.sinks = [j \in DOMAIN lg.sinks |->
                                 sink_set_rule_level(lg.sinks[j], level)]])

\* ------------------------------------------------------------------------
\* Patterns and std::regex (ECMAScript), on strings as character tuples.
\* The fragment: literal characters, '.', '\c', the quantifiers '*', '?'
\* and '+'; a '[' that is never closed does not compile, a ']' or '}' on
\* its own is a literal.
\* ------------------------------------------------------------------------
RegexSpecials == {".", "+", "^", "$", "[", "]", "(", ")", "{", "}", "|", "\\"}

\* the classification loop of set_logger_level_rule: it stops at the first
\* regex metacharacter
RECURSIVE Classify(_, _)
Classify(pattern, has_wildcard) ==
    IF pattern = <<>>
    THEN [has_wildcard |-> has_wildcard, has_regex_special |-> FALSE]
    ELSE LET c == Head(pattern)
             w == has_wildcard \/ c = "*" \/ c = "?" IN
         IF c \in RegexSpecials
         THEN [has_wildcard |-> w, has_regex_special |-> TRUE]
         ELSE Classify(Tail(pattern), w)

\* LoggerRegistry::wildcard_to_regex
RECURSIVE wildcard_to_regex(_)
wildcard_to_regex(pattern) ==
    IF pattern = <<>> THEN <<>>
    ELSE LET c == Head(pattern) IN
         (CASE c = "*" -> <<".", "*">>
            [] c = "?" -> <<".">>
            [] c \in RegexSpecials \ {"\\"} -> <<"\\", c>>
            [] OTHER -> <<c>>) \o wildcard_to_regex(Tail(pattern))

\* the text handed to std::regex for a pattern
RegexText(pattern) ==
    LET cl == Classify(pattern, FALSE) IN
    IF cl.has_wildcard /\ ~cl.has_regex_special
    THEN wildcard_to_regex(pattern) ELSE pattern

\* std::regex construction succeeds (otherwise it throws regex_error)
RECURSIVE RegexCompiles(_)
RegexCompiles(re) ==
    IF re = <<>> THEN TRUE
    ELSE IF re[1] = "\\" THEN Len(re) >= 2 /\ RegexCompiles(SubSeq(re, 3, Len(re)))
    ELSE IF re[1] \in {"*", "?", "+", "[", "(", ")", "{"} THEN FALSE
    ELSE IF Len(re) >= 2 /\ re[2] \in {"*", "?", "+"}
         THEN RegexCompiles(SubSeq(re, 3, Len(re)))
         ELSE RegexCompiles(Tail(re))

\* the characters '.' does not match (ECMAScript line terminators)
LineTerminators == {"\n", "\r"}

\* what '.' matches
AnyChar(c) == c \notin LineTerminators

\* std::regex_match(name, regex): the whole name matches
RECURSIVE regex_match(_, _)
regex_match(name, re) ==
    IF re = <<>> THEN name = <<>>
    ELSE LET alen == IF re[1] = "\\" THEN 2 ELSE 1
             rest == SubSeq(re, alen + 1, Len(re))
             quant == IF rest # <<>> /\ rest[1] \in {"*", "?", "+"}
                      THEN rest[1] ELSE "none"
             after == IF quant = "none" THEN rest ELSE Tail(rest)
             one == /\ name # <<>>
                    /\ IF alen = 2 THEN name[1] = re[2]
                       ELSE IF re[1] = "." THEN AnyChar(name[1])
                       ELSE re[1] = name[1] IN
         CASE quant = "*" -> \/ regex_match(name, after)
                             \/ one /\ regex_match(Tail(name), re)
           [] quant = "?" -> \/ regex_match(name, after)
                             \/ one /\ regex_match(Tail(name), after)
           [] quant = "+" ->
                  one /\ regex_match(Tail(name),
                                     SubSeq(re, 1, alen) \o <<"*">> \o after)
           [] OTHER -> one /\ regex_match(Tail(name), after)

\* ------------------------------------------------------------------------
\* Inputs of the registry model
\* ------------------------------------------------------------------------
MaxRules == 2

N_test_debug == <<"t", "e", "s", "t", "_", "d", "e", "b", "u", "g">>
N_other_debug == <<"o", "t", "h", "e", "r", "_", "d", "e", "b", "u", "g">>
Names == {N_test_debug, N_other_debug}

P_regex == <<".", "*", "_", "d", "e", "b", "u", "g">>
P_wild_star == <<"*", "_", "d", "e", "b", "u", "g">>
P_wild_one == <<"t", "e", "s", "t", "_", "?", "e", "b", "u", "g">>
P_broken == <<"[", "d", "e", "b", "u", "g">>
Patterns == {N_test_debug, P_regex, P_wild_star, P_wild_one, P_broken, <<>>}

RuleLevels == {Trace, Debug}
MadeSinks == {<<Info>>, <<Error, Info>>}

\* ------------------------------------------------------------------------
\* LoggerRegistry: rules
\* ------------------------------------------------------------------------
\* level_rules_[pattern] = level
PutRule(rules, pattern, level) ==
    [k \in DOMAIN rules \cup {pattern} |->
        IF k = pattern THEN level ELSE rules[k]]

\* index of the first regex rule that matches name, 0 if none
RECURSIVE FirstMatch(_, _, _)
FirstMatch(rules, name, j) ==
    IF j > Len(rules) THEN 0
    ELSE IF regex_match(name, rules[j].regex) THEN j
    ELSE FirstMatch(rules, name, j + 1)

\* (mutant) the pattern rules are searched before the exact rules
ResolveRule_patterns_first(exact, regexes, name) ==
    LET j == FirstMatch(regexes, name, 1) IN
    IF j # 0 THEN regexes[j].level
    ELSE IF name \in DOMAIN exact THEN exact[name] ELSE Unknown

\* LoggerRegistry::get_logger_level_rule on given tables
ResolveRule(exact, regexes, name) ==
    IF name \in DOMAIN exact THEN exact[name]
    ELSE LET j == FirstMatch(regexes, name, 1) IN
         IF j = 0 THEN Unknown ELSE regexes[j].level

get_logger_level_rule(name) == ResolveRule(level_rules, regex_level_rules, name)

\* the new rule reaches an already registered logger
\* (apply_rules_to_existing_loggers)
RuleReaches(pattern, is_regex, name) ==
    IF is_regex
    THEN RegexCompiles(RegexText(pattern)) /\ regex_match(name, RegexText(pattern))
    ELSE name = pattern

apply_rules_to_existing_loggers(reg, pattern, level, is_regex) ==
    [n \in DOMAIN reg |->
        IF RuleReaches(pattern, is_regex, n)
        THEN set_rule_level(reg[n], level)
        ELSE reg[n]]

\* LoggerRegistry::set_logger_level_rule, under the registry mutex
set_logger_level(pattern, level) ==
    /\ Len(regex_level_rules) < MaxRules
    /\ IF pattern = <<>>
       THEN UNCHANGED <<registry, level_rules, regex_level_rules>>
       ELSE LET cl == Classify(pattern, FALSE)
                is_regex == cl.has_wildcard \/ cl.has_regex_special
                text == RegexText(pattern) IN
            /\ IF RegexCompiles(text) /\ is_regex
               THEN /\ regex_level_rules' =
                         Append(regex_level_rules,
                                [pattern |-> pattern, regex |-> text,
                                 level |-> level])
                    /\ level_rules' = level_rules
               ELSE /\ level_rules' = PutRule(level_rules, pattern, level)
                    /\ regex_level_rules' = regex_level_rules
            /\ registry' = apply_rules_to_existing_loggers(
                               registry, pattern, level, is_regex)
    /\ last' = [op |-> "set_rule", name |-> pattern, level |-> level]
    /\ UNCHANGED <<fvars, lvars, hvars, cvars, svars>>

\* (mutant) register_logger inserts the logger without looking up a rule
Registered_without_rule(lg) == lg

\* the level register_logger leaves on the logger
Registered(lg) ==
    LET level == get_logger_level_rule(lg.name) IN
    IF level # Unknown THEN set_rule_level(lg, level) ELSE lg

\* make_logger(name, sinks): Logger construction, then register_logger
make_logger(name, levels) ==
    /\ LET lg == Logger(name, [j \in DOMAIN levels |-> Sink(levels[j])]) IN
       /\ registry' = [n \in DOMAIN registry \cup {name} |->
                          IF n = name THEN Registered(lg) ELSE registry[n]]
       /\ last' = [op |-> "register", name |-> name, level |-> get_level(lg)]
    /\ UNCHANGED <<level_rules, regex_level_rules>>
    /\ UNCHANGED <<fvars, lvars, hvars, cvars, svars>>

\* LoggerRegistry::drop_logger
drop_logger(name) ==
    /\ name \in DOMAIN registry
    /\ registry' = [n \in DOMAIN registry \ {name} |-> registry[n]]
    /\ last' = [op |-> "drop", name |-> name, level |-> Unknown]
    /\ UNCHANGED <<level_rules, regex_level_rules>>
    /\ UNCHANGED <<fvars, lvars, hvars, cvars, svars>>

RulesInit ==
    /\ registry = NoRegistry
    /\ level_rules = <<>>
    /\ regex_level_rules = <<>>
    /\ last = NoOp
    /\ cfg = [max_file_size |-> 0, max_files |-> 0, flush_on_write |-> TRUE]
    /\ sinkUp = [s \in Sinks |-> FALSE]
    /\ file_state = NoState
    /\ file_mutex = NoProc
    /\ disk = [g \in Gens |-> NoFile]
    /\ pc = [p \in Procs |-> "idle"]
    /\ cur = [p \in Procs |-> NoCall]
    /\ calls = 0
    /\ accepted = {}
    /\ discarded = <<>>
    /\ clobbered = <<>>
    /\ rotations = 0
    /\ lock_order = <<>>
    /\ thr = <<>>
    /\ mtx = <<>>
    /\ state_objs = <<>>
    /\ file_states = <<>>
    /\ file_sinks = <<>>
    /\ limited_items_ = <<>>
    /\ lim_logger = NoLogger
    /\ limited_items = <<>>
    /\ win = <<>>
    /\ lastcall = NoLimited
    /\ sink_objs = <<>>
    /\ logger_objs = <<>>
    /\ registry_ = <<>>
    /\ default_logger_ = NoRef
    /\ reg_order = <<>>
    /\ ret = NoOp

NextRules ==
    \/ \E pattern \in Patterns, level \in RuleLevels :
           set_logger_level(pattern, level)
    \/ \E name \in Names, levels \in MadeSinks : make_logger(name, levels)
    \/ \E name \in Names : drop_logger(name)

SpecRules == RulesInit /\ [][NextRules]_vars

\* ------------------------------------------------------------------------
\* Properties of the rule table
\* ------------------------------------------------------------------------
\* a pattern without wildcard and without regex metacharacter
PlainPattern(pattern) ==
    LET cl == Classify(pattern, FALSE) IN
    pattern # <<>> /\ ~cl.has_wildcard /\ ~cl.has_regex_special

\* the positions of the pattern rules that match name
MatchingRules(name) ==
    {j \in 1..Len(regex_level_rules) :
        regex_match(name, regex_level_rules[j].regex)}

\* the earliest position of a non-empty set of positions
Earliest(S) == CHOOSE j \in S : \A k \in S : j <= k

\* exact rule first, else the earliest-inserted matching pattern rule
PrecedenceLevel(name) ==
    IF name \in DOMAIN level_rules THEN level_rules[name]
    ELSE IF MatchingRules(name) = {} THEN Unknown
    ELSE regex_level_rules[Earliest(MatchingRules(name))].level

\* the table of the example: ".*_debug" -> Trace, then "test_debug" -> Debug
ExampleTable ==
    /\ DOMAIN level_rules = {N_test_debug}
    /\ level_rules[N_test_debug] = Debug
    /\ Len(regex_level_rules) = 1
    /\ regex_level_rules[1].pattern = P_regex
    /\ regex_level_rules[1].level = Trace

ReachedByLast(n) ==
    /\ last.op = "set_rule"
    /\ last.name # <<>>
    /\ n \in DOMAIN registry
    /\ RuleReaches(last.name,
                   LET cl == Classify(last.name, FALSE) IN
                   cl.has_wildcard \/ cl.has_regex_special, n)

\* C6: after set_logger_level(pattern, level), every registered logger whose
\* name matches the new rule has the level that rule resolution over the
\* whole table gives for its name.
C6_RetroactiveFullTable ==
    \A n \in Names :
        ReachedByLast(n) => get_level(registry[n]) = get_logger_level_rule(n)

\* C7: a logger just registered has the level of the rule its name resolves
\* to, whatever level it was constructed with; without a rule for its name
\* it keeps its constructed level.
C7_RuleAtRegistration ==
    last.op = "register" =>
        /\ last.name \in DOMAIN registry
        /\ LET R == get_logger_level_rule(last.name) IN
           get_level(registry[last.name]) =
               IF R # Unknown THEN R ELSE last.level

\* a logger constructed at Info is registered under a pattern rule
C7_Witness ==
    /\ last.op = "register"
    /\ last.level = Info
    /\ last.name \notin DOMAIN level_rules
    /\ get_logger_level_rule(last.name) = Trace
    /\ Len(registry[last.name].sinks) = 2
    /\ get_level(registry[last.name]) = Trace

\* ------------------------------------------------------------------------
\* Rate limiting (Logger::log_limited, limited_allowed_left, reset_limited)
\* ------------------------------------------------------------------------
MaxLimited == 4

Tags == {"t1", "t2"}
AllowedChoices == {0, 1, 2, 3}
LimitedLevels == {Debug, Info}

\* limited_items_[tag] = ctrl
PutItem(items, tag, ctrl) ==
    [k \in DOMAIN items \cup {tag} |-> IF k = tag THEN ctrl ELSE items[k]]

\* the entry limited_allowed_left finds or creates
Found(tag, allowed_num) ==
    IF tag \in DOMAIN limited_items THEN limited_items[tag]
    ELSE [allowed |-> allowed_num, count |-> 0]

\* (mutant) a changed allowed starts the count again
Requota_count_reset(ctrl, allowed_num) ==
    IF ctrl.allowed # allowed_num
    THEN [allowed |-> allowed_num, count |-> 0] ELSE ctrl

\* a different allowed replaces the stored one
Requota(ctrl, allowed_num) ==
    IF ctrl.allowed # allowed_num
    THEN [ctrl EXCEPT !.allowed = allowed_num] ELSE ctrl

\* the value limited_allowed_left returns
QuotaLeft(ctrl) ==
    IF ctrl.count < ctrl.allowed THEN ctrl.allowed - ctrl.count ELSE 0

\* (mutant) the count is never incremented
Consumed_not_counted(ctrl) == ctrl

\* the entry limited_allowed_left leaves
Consumed(ctrl) ==
    IF ctrl.count < ctrl.allowed
    THEN [ctrl EXCEPT !.count = ctrl.count + 1] ELSE ctrl

\* the logger's own gate in log_limited
Admits(lg, level) == lg.valid /\ level >= lg.min_level

\* (mutant) the notice goes on the message before the last
Suppressing_one_early(left) == left = 2

\* the message carries " (more messages will be suppressed)"
Suppressing(left) == left = 1

\* history of a tag since its counter last started a stretch: at first
\* use, at reset_limited, or when allowed changed
NextWindow(tag, allowed_num, before, existed, passed, emitted, suffix, admitted) ==
    LET old == IF existed THEN win[tag]
               ELSE [kind |-> "first", N |-> allowed_num, base |-> 0,
                     since |-> 0, passes |-> 0, emits |-> 0, admitted |-> TRUE,
                     sfx |-> 0, sfxseg |-> 0]
        start == IF existed /\ before.allowed # allowed_num
                 THEN IF old.since = 0
                      THEN [old EXCEPT !.N = allowed_num]
                      ELSE [old EXCEPT !.kind = "change", !.N = allowed_num,
                                       !.base = before.count, !.since = 0,
                                       !.passes = 0, !.emits = 0,
                                       !.admitted = TRUE, !.sfxseg = 0]
                 ELSE old IN
    [start EXCEPT !.since = start.since + 1,
                  !.passes = start.passes + (IF passed THEN 1 ELSE 0),
                  !.emits = start.emits + (IF emitted THEN 1 ELSE 0),
                  !.admitted = start.admitted /\ admitted,
                  !.sfx = start.sfx + (IF suffix THEN 1 ELSE 0),
                  !.sfxseg = start.sfxseg + (IF suffix THEN 1 ELSE 0)]

\* Logger::log_limited(tag, allowed_num, level, msg)
log_limited(tag, allowed_num, level) ==
    /\ lastcall.n < MaxLimited
    /\ LET existed == tag \in DOMAIN limited_items
           before == Found(tag, allowed_num)
           ctrl == Requota(before, allowed_num)
           left == QuotaLeft(ctrl)
           emitted == Admits(lim_logger, level) /\ left > 0
           suffix == emitted /\ Suppressing(left) IN
       /\ limited_items' = PutItem(limited_items, tag, Consumed(ctrl))
       /\ lastcall' = [op |-> "log_limited", n |-> lastcall.n + 1, tag |-> tag,
                       allowed |-> allowed_num, level |-> level,
                       existed |-> existed, before |-> before,
                       emitted |-> emitted, suffix |-> suffix]
       /\ win' = PutItem(win, tag,
                         NextWindow(tag, allowed_num, before, existed,
                                    left > 0, emitted, suffix,
                                    Admits(lim_logger, level)))
    /\ UNCHANGED lim_logger
    /\ UNCHANGED <<fvars, rvars, hvars, cvars, svars>>

\* Logger::reset_limited(tag)
reset_limited(tag) ==
    /\ IF tag \in DOMAIN limited_items
       THEN /\ limited_items' = [limited_items EXCEPT ![tag].count = 0]
            /\ win' = [win EXCEPT ![tag] =
                          [kind |-> "reset", N |-> limited_items[tag].allowed,
                           base |-> 0, since |-> 0, passes |-> 0, emits |-> 0,
                           admitted |-> TRUE, sfx |-> 0, sfxseg |-> 0]]
       ELSE UNCHANGED <<limited_items, win>>
    /\ lastcall' = [op |-> "reset_limited", n |-> lastcall.n, tag |-> tag]
    /\ UNCHANGED lim_logger
    /\ UNCHANGED <<fvars, rvars, hvars, cvars, svars>>

\* a logger whose sink was set up, at Debug or Info, or one whose sink
\* failed to set up (valid_ false, min_level_ never assigned)
LimitInit ==
    /\ lim_logger \in
           {Logger(N_test_debug, <<Sink(l)>>) : l \in {Debug, Info}}
           \cup {[name |-> N_test_debug, sinks |-> <<Sink(Info)>>,
                  valid |-> FALSE, min_level |-> l, max_level |-> l] :
                     l \in {Trace, Off}}
    /\ limited_items = <<>>
    /\ win = <<>>
    /\ lastcall = NoLimited
    /\ sink_objs = <<>>
    /\ logger_objs = <<>>
    /\ registry_ = <<>>
    /\ default_logger_ = NoRef
    /\ reg_order = <<>>
    /\ ret = NoOp
    /\ registry = NoRegistry
    /\ level_rules = <<>>
    /\ regex_level_rules = <<>>
    /\ last = NoOp
    /\ cfg = [max_file_size |-> 0, max_files |-> 0, flush_on_write |-> TRUE]
    /\ sinkUp = [s \in Sinks |-> FALSE]
    /\ file_state = NoState
    /\ file_mutex = NoProc
    /\ disk = [g \in Gens |-> NoFile]
    /\ pc = [p \in Procs |-> "idle"]
    /\ cur = [p \in Procs |-> NoCall]
    /\ calls = 0
    /\ accepted = {}
    /\ discarded = <<>>
    /\ clobbered = <<>>
    /\ rotations = 0
    /\ lock_order = <<>>
    /\ thr = <<>>
    /\ mtx = <<>>
    /\ state_objs = <<>>
    /\ file_states = <<>>
    /\ file_sinks = <<>>
    /\ limited_items_ = <<>>

NextLimit ==
    \/ \E tag \in Tags, allowed_num \in AllowedChoices, level \in LimitedLevels :
           log_limited(tag, allowed_num, level)
    \/ \E tag \in Tags : reset_limited(tag)

SpecLimit == LimitInit /\ [][NextLimit]_vars

\* ------------------------------------------------------------------------
\* Properties of rate limiting
\* ------------------------------------------------------------------------
Least(a, b) == IF a < b THEN a ELSE b
Room(w) == IF w.N > w.base THEN w.N - w.base ELSE 0

\* every call of the tag's current stretch was at a level the valid logger
\* admits, and the stretch began at first use or reset
ConstantAdmitted(tag) ==
    /\ tag \in DOMAIN win
    /\ win[tag].kind \in {"first", "reset"}
    /\ win[tag].admitted

\* C8: on a valid logger, at admitted levels and with a constant allowed = N
\* since the tag was first used or last reset, exactly the first N calls
\* emit: the call just made emitted iff it is among the first N, and the
\* number of emitted messages is min(calls, N); the same after a reset.
C8_FirstNEmit ==
    \A tag \in Tags :
        ConstantAdmitted(tag) =>
            /\ win[tag].emits = Least(win[tag].since, win[tag].N)
            /\ (lastcall.op = "log_limited" /\ lastcall.tag = tag)
                   => (lastcall.emitted <=> win[tag].since <= win[tag].N)

\* after a reset, N = 2 calls emitted again and the third did not
C8_Witness ==
    /\ lastcall.op = "log_limited"
    /\ ConstantAdmitted(lastcall.tag)
    /\ win[lastcall.tag].kind = "reset"
    /\ win[lastcall.tag].N = 2
    /\ win[lastcall.tag].since = 3
    /\ win[lastcall.tag].emits = 2
    /\ ~lastcall.emitted

\* the call just made brought the tag's count up to its allowed value
ExhaustedByLast ==
    /\ lastcall.op = "log_limited"
    /\ limited_items[lastcall.tag].count = limited_items[lastcall.tag].allowed
    /\ lastcall.before.count < limited_items[lastcall.tag].count

\* the notice is on the message of the exhausting call and on no other
SuffixOnExhaustion ==
    lastcall.op = "log_limited" =>
        /\ lastcall.suffix => lastcall.emitted
        /\ lastcall.emitted => (lastcall.suffix <=> ExhaustedByLast)
        /\ ConstantAdmitted(lastcall.tag) =>
               (lastcall.suffix <=>
                    /\ lastcall.emitted
                    /\ win[lastcall.tag].emits = win[lastcall.tag].N)

sink_set_level(sk, level) == [sk EXCEPT !.level = level]

\* the level test at the head of Stdout::log and File::log
sink_accepts(sk, level) == level >= sink_get_level(sk)

\* Logger::set_level
set_level(lg, level) ==
    update_filter_level(
        [lg EXCEPT !.sinks = [j \in DOMAIN lg.sinks |->
                                 sink_set_level(lg.sinks[j], level)]])

\* Logger::Logger(name, sinks) when the setup of sink number failing fails
\* (0: none fails): the constructor returns before update_filter_level and
\* min_level_, max_level_ are never assigned
Constructed(name, sinks, failing) ==
    IF failing = 0 THEN {Logger(name, sinks)}
    ELSE {[name |-> name, sinks |-> sinks, valid |-> FALSE,
           min_level |-> lo, max_level |-> hi] :
              lo \in {Trace, Off}, hi \in {Trace, Off}}

\* (mutant) the early return tests the level only
Rejected_level_only(lg, level) == level < lg.min_level

\* the early return of Logger::log, log_lines and log_data
Rejected(lg, level) == ~lg.valid \/ level < lg.min_level

\* the messages each sink lets through when the logger hands it count
\* messages at the level
Dispatch(lg, level, count) ==
    [j \in DOMAIN lg.sinks |->
        IF sink_accepts(lg.sinks[j], level) THEN count ELSE 0]

Nothing(lg) == [j \in DOMAIN lg.sinks |-> 0]

\* (mutant) "\r" and "\n" each end a line, also next to each other
RECURSIVE SplitLines_crlf_twice(_, _)
SplitLines_crlf_twice(msg, current_line) ==
    IF msg = <<>> THEN <<current_line>>
    ELSE IF msg[1] = "\r" \/ msg[1] = "\n"
         THEN <<current_line>> \o SplitLines_crlf_twice(Tail(msg), <<>>)
    ELSE SplitLines_crlf_twice(Tail(msg), Append(current_line, msg[1]))

\* the lines log_lines cuts msg into: "\r\n", "\n" and "\r" each end a line,
\* and what follows the last separator is a line, empty or not
RECURSIVE SplitLines(_, _)
SplitLines(msg, current_line) ==
    IF msg = <<>> THEN <<current_line>>
    ELSE IF msg[1] = "\r" /\ Len(msg) >= 2 /\ msg[2] = "\n"
         THEN <<current_line>> \o SplitLines(SubSeq(msg, 3, Len(msg)), <<>>)
    ELSE IF msg[1] = "\r" \/ msg[1] = "\n"
         THEN <<current_line>> \o SplitLines(Tail(msg), <<>>)
    ELSE SplitLines(Tail(msg), Append(current_line, msg[1]))

LogLevels == {Trace, Debug, Info, Error}
SetLevels == {Trace, Warning}
LineTexts == {<<>>, <<"a">>, <<"a", "\r", "\n", "b">>, <<"a", "\n">>,
              <<"\r", "a", "\n", "\n">>}
DataSizes == {0, 1, 17}

\* Logger::log(level, msg)
log(level) ==
    /\ lastcall' = [op |-> "log", n |-> lastcall.n, level |-> level,
                    reached |-> IF Rejected(lim_logger, level)
                                THEN Nothing(lim_logger)
                                ELSE Dispatch(lim_logger, level, 1)]
    /\ UNCHANGED <<lim_logger, limited_items, win>>
    /\ UNCHANGED <<fvars, rvars, hvars, cvars, svars>>

\* Logger::log_lines(level, msg): one log call for each line
log_lines(level, msg) ==
    /\ lastcall' = [op |-> "log_lines", n |-> lastcall.n, level |-> level,
                    msg |-> msg,
                    lines |-> IF Rejected(lim_logger, level) \/ msg = <<>>
                              THEN <<>> ELSE SplitLines(msg, <<>>),
                    reached |-> IF Rejected(lim_logger, level) \/ msg = <<>>
                                THEN Nothing(lim_logger)
                                ELSE Dispatch(lim_logger, level,
                                              Len(SplitLines(msg, <<>>)))]
    /\ UNCHANGED <<lim_logger, limited_items, win>>
    /\ UNCHANGED <<fvars, rvars, hvars, cvars, svars>>

\* Logger::log_data(level, data, size, msg): one message for the whole dump
log_data(level, size) ==
    /\ lastcall' = [op |-> "log_data", n |-> lastcall.n, level |-> level,
                    reached |-> IF Rejected(lim_logger, level) \/ size = 0
                                THEN Nothing(lim_logger)
                                ELSE Dispatch(lim_logger, level, 1)]
    /\ UNCHANGED <<lim_logger, limited_items, win>>
    /\ UNCHANGED <<fvars, rvars, hvars, cvars, svars>>

\* Logger::set_level(level) by the owner of the logger
Logger_set_level(level) ==
    /\ lim_logger' = set_level(lim_logger, level)
    /\ lastcall' = [op |-> "set_level", n |-> lastcall.n, level |-> level]
    /\ UNCHANGED <<limited_items, win>>
    /\ UNCHANGED <<fvars, rvars, hvars, cvars, svars>>

\* Logger::set_rule_level(level), as the registry calls it for a rule
Logger_set_rule_level(level) ==
    /\ lim_logger' = set_rule_level(lim_logger, level)
    /\ lastcall' = [op |-> "set_rule_level", n |-> lastcall.n, level |-> level]
    /\ UNCHANGED <<limited_items, win>>
    /\ UNCHANGED <<fvars, rvars, hvars, cvars, svars>>

\* a logger constructed on one or two sinks, the setup of none or of one of
\* them failing
LoggerInit ==
    /\ \E sinks \in {<<Sink(Info)>>, <<Sink(Info), Sink(Debug)>>,
                     <<Sink(Debug), Sink(Error)>>} :
       \E failing \in 0..Len(sinks) :
           lim_logger \in Constructed(N_test_debug, sinks, failing)
    /\ limited_items = <<>>
    /\ win = <<>>
    /\ lastcall = NoLimited
    /\ sink_objs = <<>>
    /\ logger_objs = <<>>
    /\ registry_ = <<>>
    /\ default_logger_ = NoRef
    /\ reg_order = <<>>
    /\ ret = NoOp
    /\ registry = NoRegistry
    /\ level_rules = <<>>
    /\ regex_level_rules = <<>>
    /\ last = NoOp
    /\ cfg = [max_file_size |-> 0, max_files |-> 0, flush_on_write |-> TRUE]
    /\ sinkUp = [s \in Sinks |-> FALSE]
    /\ file_state = NoState
    /\ file_mutex = NoProc
    /\ disk = [g \in Gens |-> NoFile]
    /\ pc = [p \in Procs |-> "idle"]
    /\ cur = [p \in Procs |-> NoCall]
    /\ calls = 0
    /\ accepted = {}
    /\ discarded = <<>>
    /\ clobbered = <<>>
    /\ rotations = 0
    /\ lock_order = <<>>
    /\ thr = <<>>
    /\ mtx = <<>>
    /\ state_objs = <<>>
    /\ file_states = <<>>
    /\ file_sinks = <<>>
    /\ limited_items_ = <<>>

NextLogger ==
    \/ \E level \in LogLevels : log(level)
    \/ \E level \in LogLevels, msg \in LineTexts : log_lines(level, msg)
    \/ \E level \in LogLevels, size \in DataSizes : log_data(level, size)
    \/ \E level \in SetLevels : Logger_set_level(level)
    \/ \E level \in RuleLevels : Logger_set_rule_level(level)
    \/ \E level \in {Debug, Error} : log_limited("t1", 1, level)
    \/ reset_limited("t1")

SpecLogger == LoggerInit /\ [][NextLogger]_vars

\* ------------------------------------------------------------------------
\* Properties of one Logger
\* ------------------------------------------------------------------------
\* the least of the sinks' levels
LeastSinkLevel(lg) ==
    CHOOSE l \in {sink_get_level(lg.sinks[j]) : j \in DOMAIN lg.sinks} :
        \A j \in DOMAIN lg.sinks : l <= sink_get_level(lg.sinks[j])

Silent ==
    CASE lastcall.op \in {"log", "log_lines", "log_data"} ->
             \A j \in DOMAIN lastcall.reached : lastcall.reached[j] = 0
      [] lastcall.op = "log_limited" -> ~lastcall.emitted /\ ~lastcall.suffix
      [] OTHER -> TRUE

\* C16: a Logger one of whose sinks failed to set up is invalid for good:
\* set_level, the application of a rule level and reset_limited leave it
\* invalid, and every log, log_lines, log_data and log_limited call on it
\* delivers nothing to any sink.
C16_SetupFailurePermanent ==
    [][(~lim_logger.valid) => (~lim_logger'.valid /\ Silent')]_vars

\* an invalid logger on two sinks, its levels opened to Trace by set_level
\* and by a rule, dropped a dump at Error
C16_Witness ==
    /\ ~lim_logger.valid
    /\ Len(lim_logger.sinks) = 2
    /\ \A j \in DOMAIN lim_logger.sinks :
           /\ lim_logger.sinks[j].level = Trace
           /\ lim_logger.sinks[j].rule_level = Trace
    /\ lim_logger.min_level = Trace
    /\ "t1" \in DOMAIN limited_items
    /\ lastcall.op = "log_data"
    /\ lastcall.level = Error
    /\ Silent

\* ------------------------------------------------------------------------
\* Sinks and Loggers by reference: construction, clone, the registry's map
\* and its default logger
\* ------------------------------------------------------------------------
MaxLoggerObjs == 2
MaxSinkObjs == 2

N_a == <<"a">>
N_b == <<"b">>
N_default == <<"d", "e", "f", "a", "u", "l", "t">>
RegNames == {N_a, N_b}

\* Stdout(level), File(level, filepath, ...), None(level); openable: the
\* path of a File sink can be opened
NewSink(kind, level, openable) ==
    [kind |-> kind, name |-> <<>>, level |-> level, rule_level |-> Unknown,
     openable |-> openable]

\* setup(logger_name) stores the name first; only File::setup can fail
SetUp(sk, logger_name) == [sk EXCEPT !.name = logger_name]
SetupOk(sk) == sk.kind # "File" \/ sk.openable

\* Stdout::clone, File::clone and Spdlog::clone return nullptr for the
\* sink's own name; None::clone has no such test
CloneRefused(sk, logger_name) == sk.kind # "None" /\ logger_name = sk.name

\* the sink clone() makes: same kind and resource, the source's level_
sink_clone(sk, logger_name) ==
    SetUp(NewSink(sk.kind, sk.level, sk.openable), logger_name)

\* the registry and the objects reachable from it or held by callers
St == [so |-> sink_objs, lo |-> logger_objs, reg |-> registry_,
       def |-> default_logger_, order |-> reg_order]

SinkRecs(so, ids) == [j \in DOMAIN ids |-> so[ids[j]]]

Owns(lg, i) == \E j \in DOMAIN lg.sinks : lg.sinks[j] = i

\* Logger::update_filter_level on a Logger that refers to its sinks
Refiltered(so, lg) ==
    LET v == update_filter_level([lg EXCEPT !.sinks = SinkRecs(so, lg.sinks)]) IN
    [lg EXCEPT !.min_level = v.min_level, !.max_level = v.max_level]

\* Logger::set_rule_level on the Logger id
R_set_rule_level(st, id, level) ==
    LET so1 == [i \in DOMAIN st.so |->
                   IF Owns(st.lo[id], i)
                   THEN sink_set_rule_level(st.so[i], level) ELSE st.so[i]] IN
    [st EXCEPT !.so = so1, !.lo[id] = Refiltered(so1, st.lo[id])]

Without(seq, x) == SelectSeq(seq, LAMBDA y : y # x)

\* (mutant) a registered name keeps its entry, as with insert()
R_register_logger_first_wins(st, id) ==
    LET name == st.lo[id].name IN
    IF name \in DOMAIN st.reg THEN st
    ELSE [st EXCEPT !.reg = PutItem(st.reg, name, id),
                    !.order = Append(st.order, name)]

\* LoggerRegistry::register_logger
R_register_logger(st, id) ==
    LET name == st.lo[id].name
        level == get_logger_level_rule(name)
        st1 == IF level # Unknown THEN R_set_rule_level(st, id, level) ELSE st IN
    [st1 EXCEPT !.reg = PutItem(st1.reg, name, id),
                !.order = Append(Without(st1.order, name), name)]

\* position of the first sink whose setup fails, 0 if none
RECURSIVE FirstFailing(_, _, _)
FirstFailing(so, ids, j) ==
    IF j > Len(ids) THEN 0
    ELSE IF ~SetupOk(so[ids[j]]) THEN j
    ELSE FirstFailing(so, ids, j + 1)

\* Logger::Logger(name, sinks): the sinks are set up in order and the
\* constructor returns at the first failure, leaving min_level_ and
\* max_level_ unassigned (uninit: what they then hold)
R_Logger(st, name, ids, uninit) ==
    LET ff == FirstFailing(st.so, ids, 1)
        so1 == [i \in DOMAIN st.so |->
                   IF \E j \in DOMAIN ids : ids[j] = i /\ (ff = 0 \/ j <= ff)
                   THEN SetUp(st.so[i], name) ELSE st.so[i]]
        raw == [name |-> name, sinks |-> ids, valid |-> ff = 0,
                min_level |-> uninit, max_level |-> uninit] IN
    [st EXCEPT !.so = so1,
               !.lo = Append(st.lo, IF ff = 0 THEN Refiltered(so1, raw) ELSE raw)]

\* get_default: an unset default is taken from a non-empty registry
UseRegistered(st) == DOMAIN st.reg # {}

\* LoggerRegistry::get_default(logger_name); begin: the name at
\* registry_.begin(), any entry of the unordered_map
R_get_default(st, logger_name, begin) ==
    IF st.def # NoRef THEN [st |-> st, res |-> st.def]
    ELSE IF UseRegistered(st)
    THEN [st |-> [st EXCEPT !.def = st.reg[begin]], res |-> st.reg[begin]]
    ELSE LET st1 == [st EXCEPT !.so = Append(st.so, NewSink("Stdout", Info, TRUE))]
             st2 == R_Logger(st1, logger_name, <<Len(st1.so)>>, Off)
             st3 == [st2 EXCEPT !.def = Len(st2.lo)] IN
         [st |-> R_register_logger(st3, Len(st2.lo)), res |-> Len(st2.lo)]

\* the first test of Logger::clone
SelfClone(lg, logger_name) == logger_name = lg.name

\* Logger::clone(logger_name) (forced = Unknown) and
\* Logger::clone(logger_name, level) (forced = level)
R_clone(st, id, logger_name, begin, forced) ==
    LET lg == st.lo[id]
        kept == SelectSeq(lg.sinks,
                          LAMBDA i : ~CloneRefused(st.so[i], logger_name)) IN
    IF SelfClone(lg, logger_name) \/ kept = <<>>
    THEN R_get_default(st, N_default, begin)
    ELSE LET news == [j \in DOMAIN kept |->
                         LET c == sink_clone(st.so[kept[j]], logger_name) IN
                         IF forced = Unknown
                         THEN sink_set_rule_level(c, Unknown)
                         ELSE sink_set_level(c, forced)]
             so1 == st.so \o news
             raw == [name |-> logger_name,
                     sinks |-> [j \in DOMAIN kept |-> Len(st.so) + j],
                     valid |-> TRUE, min_level |-> Off, max_level |-> Trace]
             st1 == [st EXCEPT !.so = so1,
                               !.lo = Append(st.lo, Refiltered(so1, raw))] IN
         [st |-> R_register_logger(st1, Len(st1.lo)), res |-> Len(st1.lo)]

\* slog::get_logger(name)
R_get_logger(st, name, begin) ==
    IF name \in DOMAIN st.reg THEN [st |-> st, res |-> st.reg[name]]
    ELSE IF DOMAIN st.reg = {} THEN R_get_default(st, name, begin)
    ELSE LET d == R_get_default(st, N_default, begin) IN
         R_clone(d.st, d.res, name, begin, Unknown)

\* the names registry_.begin() may designate
Begins == IF DOMAIN registry_ = {} THEN {<<>>} ELSE DOMAIN registry_

\* the call returns r.res and leaves the state r.st
Returns(r, op, name, src) ==
    /\ Len(r.st.lo) <= MaxLoggerObjs
    /\ Len(r.st.so) <= MaxSinkObjs
    /\ sink_objs' = r.st.so
    /\ logger_objs' = r.st.lo
    /\ registry_' = r.st.reg
    /\ default_logger_' = r.st.def
    /\ reg_order' = r.st.order
    /\ ret' = [op |-> op, name |-> name, src |-> src, res |-> r.res]
    /\ UNCHANGED <<fvars, rvars, lvars, cvars, svars>>

SinkChoices == {NewSink("Stdout", Info, TRUE), NewSink("None", Off, TRUE)}

\* slog::make_logger(name, sink) on a sink made for it
make_logger_ref(name, sink, uninit) ==
    LET st1 == [St EXCEPT !.so = Append(sink_objs, sink)]
        st2 == R_Logger(st1, name, <<Len(st1.so)>>, uninit) IN
    Returns([st |-> R_register_logger(st2, Len(st2.lo)), res |-> Len(st2.lo)],
            "make_logger", name, NoRef)

\* slog::make_logger(name, sink) on a sink another Logger already uses
make_logger_shared(name, sid, uninit) ==
    /\ sid \in DOMAIN sink_objs
    /\ LET st2 == R_Logger(St, name, <<sid>>, uninit) IN
       Returns([st |-> R_register_logger(st2, Len(st2.lo)), res |-> Len(st2.lo)],
               "make_logger", name, NoRef)

\* slog::register_logger(logger) on a Logger the caller holds
register_logger(id) ==
    /\ id \in DOMAIN logger_objs
    /\ Returns([st |-> R_register_logger(St, id), res |-> id],
               "register_logger", logger_objs[id].name, id)

\* slog::default_logger()
default_logger ==
    \E begin \in Begins :
        Returns(R_get_default(St, N_default, begin), "default_logger",
                N_default, NoRef)

\* slog::get_logger(name)
get_logger(name) ==
    \E begin \in Begins :
        Returns(R_get_logger(St, name, begin), "get_logger", name, NoRef)

\* slog::set_default_logger(name)
set_default_logger(name) ==
    Returns(IF name \in DOMAIN registry_
            THEN [st |-> [St EXCEPT !.def = registry_[name]],
                  res |-> registry_[name]]
            ELSE [st |-> St, res |-> NoRef],
            "set_default_logger", name, NoRef)

\* (mutant) drop_logger erases the entry and keeps the default logger
drop_logger_ref_default_kept(name) ==
    Returns([st |-> [St EXCEPT
                       !.reg = [n \in DOMAIN registry_ \ {name} |-> registry_[n]],
                       !.order = Without(reg_order, name)],
             res |-> NoRef],
            "drop_logger", name, NoRef)

\* slog::drop_logger(name)
drop_logger_ref(name) ==
    Returns([st |-> [St EXCEPT
                       !.reg = [n \in DOMAIN registry_ \ {name} |-> registry_[n]],
                       !.order = Without(reg_order, name),
                       !.def = IF /\ default_logger_ # NoRef
                                  /\ logger_objs[default_logger_].name = name
                               THEN NoRef ELSE default_logger_],
             res |-> NoRef],
            "drop_logger", name, NoRef)

\* Logger::clone(logger_name) on a Logger the caller holds
clone(id, logger_name) ==
    /\ id \in DOMAIN logger_objs
    /\ \E begin \in Begins :
           Returns(R_clone(St, id, logger_name, begin, Unknown), "clone",
                   logger_name, id)

\* no logger, no sink, no default, no rule
RegInit ==
    /\ sink_objs = <<>>
    /\ logger_objs = <<>>
    /\ registry_ = <<>>
    /\ default_logger_ = NoRef
    /\ reg_order = <<>>
    /\ ret = NoOp
    /\ level_rules = <<>>
    /\ regex_level_rules = <<>>
    /\ registry = NoRegistry
    /\ last = NoOp
    /\ lim_logger = NoLogger
    /\ limited_items = <<>>
    /\ win = <<>>
    /\ lastcall = NoLimited
    /\ cfg = [max_file_size |-> 0, max_files |-> 0, flush_on_write |-> TRUE]
    /\ sinkUp = [s \in Sinks |-> FALSE]
    /\ file_state = NoState
    /\ file_mutex = NoProc
    /\ disk = [g \in Gens |-> NoFile]
    /\ pc = [p \in Procs |-> "idle"]
    /\ cur = [p \in Procs |-> NoCall]
    /\ calls = 0
    /\ accepted = {}
    /\ discarded = <<>>
    /\ clobbered = <<>>
    /\ rotations = 0
    /\ lock_order = <<>>
    /\ thr = <<>>
    /\ mtx = <<>>
    /\ state_objs = <<>>
    /\ file_states = <<>>
    /\ file_sinks = <<>>
    /\ limited_items_ = <<>>

NextReg ==
    \/ \E name \in RegNames, sink \in SinkChoices, uninit \in {Trace, Off} :
           make_logger_ref(name, sink, uninit)
    \/ \E name \in RegNames, sid \in 1..MaxSinkObjs, uninit \in {Trace, Off} :
           make_logger_shared(name, sid, uninit)
    \/ \E id \in 1..MaxLoggerObjs : register_logger(id)
    \/ default_logger
    \/ \E name \in RegNames : get_logger(name)
    \/ \E name \in RegNames : set_default_logger(name)
    \/ \E name \in RegNames \cup {N_default} : drop_logger_ref(name)
    \/ \E id \in 1..MaxLoggerObjs, name \in RegNames \cup {N_default} :
           clone(id, name)

SpecReg == RegInit /\ [][NextReg]_vars

(***************************************************************************)
(* Properties of the registry.                                             *)
(***************************************************************************)

has_logger(name) == name \in DOMAIN registry_

\* every sink of the Logger id returns no clone for that name
AllRefused(id, name) ==
    \A j \in DOMAIN logger_objs[id].sinks :
        CloneRefused(sink_objs[logger_objs[id].sinks[j]], name)

\* the step is a clone() that cannot make a clone
CloneFails ==
    /\ ret'.op = "clone"
    /\ \/ logger_objs[ret'.src].name = ret'.name
       \/ AllRefused(ret'.src, ret'.name)

SameEntry(name) ==
    /\ has_logger(name) <=> name \in DOMAIN registry_'
    /\ has_logger(name) => registry_'[name] = registry_[name]

\* C12: a clone() onto the Logger's own name, or one for which every sink
\* returns no clone, creates no Logger, leaves the registry entry of the
\* requested name as it was and returns the current default logger.
C12_SelfCloneRejected ==
    [][CloneFails =>
          /\ logger_objs' = logger_objs
          /\ SameEntry(ret'.name)
          /\ ret'.res # NoRef
          /\ ret'.res = default_logger_']_vars

\* C13: get_logger(name) never returns null; the Logger it returns is named
\* name and is the one registered under name, so has_logger(name) holds and
\* later lookups return the same instance until the entry is dropped or
\* replaced.
C13_GetLoggerUsable ==
    ret.op = "get_logger" =>
        /\ ret.res # NoRef
        /\ logger_objs[ret.res].name = ret.name
        /\ has_logger(ret.name)
        /\ registry_[ret.name] = ret.res

\* what default_logger() returns without constructing anything
CurrentDefaults ==
    IF default_logger_ # NoRef THEN {default_logger_}
    ELSE {registry_[n] : n \in DOMAIN registry_}

\* the step made one new Logger, returned it and registered it under name
MadeNew(name) ==
    /\ Len(logger_objs') = Len(logger_objs) + 1
    /\ ret'.res = Len(logger_objs')
    /\ logger_objs'[ret'.res].name = name
    /\ name \in DOMAIN registry_'
    /\ registry_'[name] = ret'.res

SinkKinds(so, lg) == [j \in DOMAIN lg.sinks |-> so[lg.sinks[j]].kind]

\* the step is a get_logger(name) for a name that is not registered
GetsAbsent == ret'.op = "get_logger" /\ ~has_logger(ret'.name)

\* C14: on an empty registry get_logger(name) makes a Console Logger named
\* name which is then the default; on a non-empty registry without name it
\* makes a clone of the current default and the current default stays.
C14_GetLoggerAndDefault ==
    [][GetsAbsent =>
          IF DOMAIN registry_ = {}
          THEN /\ MadeNew(ret'.name)
               /\ SinkKinds(sink_objs', logger_objs'[ret'.res]) = <<"Stdout">>
               /\ default_logger_' = ret'.res
          ELSE /\ default_logger_' \in CurrentDefaults
               /\ MadeNew(ret'.name)
               /\ SinkKinds(sink_objs', logger_objs'[ret'.res])
                    = SinkKinds(sink_objs, logger_objs[default_logger_'])]_vars

\* the step is a default_logger() while no default is set
SelectsDefault == ret'.op = "default_logger" /\ default_logger_ = NoRef

\* C15: with no default set, default_logger() returns the Logger of the
\* earliest registration still in the registry and creates nothing; on an
\* empty registry it makes, registers and returns a Console Logger "default".
C15_DefaultSelection ==
    [][SelectsDefault =>
          IF DOMAIN registry_ # {}
          THEN /\ ret'.res = registry_[Head(reg_order)]
               /\ logger_objs' = logger_objs
          ELSE /\ MadeNew(N_default)
               /\ SinkKinds(sink_objs', logger_objs'[ret'.res]) = <<"Stdout">>]_vars

\* the step registers a Logger under a name that is already registered to
\* another Logger
Reregisters ==
    /\ ret'.op \in {"register_logger", "make_logger"}
    /\ has_logger(ret'.name)
    /\ registry_[ret'.name] # ret'.res

\* C18: registering under a registered name replaces the entry: the name
\* now leads to the new Logger, no name leads to the replaced one any more
\* unless another entry already did, the replaced Logger itself is left as
\* it was, and the registry has as many entries as before.
C18_LastRegistrationWins ==
    [][Reregisters =>
          LET old == registry_[ret'.name] IN
          /\ registry_'[ret'.name] = ret'.res
          /\ logger_objs'[ret'.res].name = ret'.name
          /\ \A n \in DOMAIN registry_' : registry_'[n] # old
          /\ logger_objs'[old] = logger_objs[old]
          /\ DOMAIN registry_' = DOMAIN registry_]_vars

C18_Witness ==
    /\ ret.op = "make_logger"
    /\ \E old \in DOMAIN logger_objs :
          /\ old # ret.res
          /\ logger_objs[old].name = ret.name
          /\ logger_objs[old].valid
    /\ registry_[ret.name] = ret.res

(***************************************************************************)
(* Sinks on their own: construction, setup, clone and set_level.           *)
(***************************************************************************)

SinkKindsMade == {"None", "Stdout", "File", "Spdlog"}

SinkReturns(so, op, name, src, res) ==
    /\ Len(so) <= MaxSinkObjs
    /\ sink_objs' = so
    /\ ret' = [op |-> op, name |-> name, src |-> src, res |-> res]
    /\ UNCHANGED <<logger_objs, registry_, default_logger_, reg_order>>
    /\ UNCHANGED <<fvars, rvars, lvars, cvars, svars>>

\* std::make_shared<sink::X>(level, ...)
Sink_make(kind, level) ==
    SinkReturns(Append(sink_objs, NewSink(kind, level, TRUE)), "sink_make",
                <<>>, NoRef, Len(sink_objs) + 1)

\* sink->setup(name)
Sink_setup(sid, name) ==
    /\ sid \in DOMAIN sink_objs
    /\ SinkReturns([sink_objs EXCEPT ![sid] = SetUp(@, name)], "sink_setup",
                   name, sid, sid)

\* sink->clone(logger_name)
Sink_clone(sid, logger_name) ==
    /\ sid \in DOMAIN sink_objs
    /\ IF CloneRefused(sink_objs[sid], logger_name)
       THEN SinkReturns(sink_objs, "sink_clone", logger_name, sid, NoRef)
       ELSE SinkReturns(Append(sink_objs, sink_clone(sink_objs[sid], logger_name)),
                        "sink_clone", logger_name, sid, Len(sink_objs) + 1)

\* sink->set_level(level)
Sink_set_level(sid, level) ==
    /\ sid \in DOMAIN sink_objs
    /\ SinkReturns([sink_objs EXCEPT ![sid] = sink_set_level(@, level)],
                   "sink_set_level", <<>>, sid, sid)

SinkInit ==
    /\ sink_objs = <<>>
    /\ logger_objs = <<>>
    /\ registry_ = <<>>
    /\ default_logger_ = NoRef
    /\ reg_order = <<>>
    /\ ret = NoOp
    /\ level_rules = <<>>
    /\ regex_level_rules = <<>>
    /\ registry = NoRegistry
    /\ last = NoOp
    /\ lim_logger = NoLogger
    /\ limited_items = <<>>
    /\ win = <<>>
    /\ lastcall = NoLimited
    /\ cfg = [max_file_size |-> 0, max_files |-> 0, flush_on_write |-> TRUE]
    /\ sinkUp = [s \in Sinks |-> FALSE]
    /\ file_state = NoState
    /\ file_mutex = NoProc
    /\ disk = [g \in Gens |-> NoFile]
    /\ pc = [p \in Procs |-> "idle"]
    /\ cur = [p \in Procs |-> NoCall]
    /\ calls = 0
    /\ accepted = {}
    /\ discarded = <<>>
    /\ clobbered = <<>>
    /\ rotations = 0
    /\ lock_order = <<>>
    /\ thr = <<>>
    /\ mtx = <<>>
    /\ state_objs = <<>>
    /\ file_states = <<>>
    /\ file_sinks = <<>>
    /\ limited_items_ = <<>>

NextSink ==
    \/ \E kind \in SinkKindsMade, level \in {Info, Off} : Sink_make(kind, level)
    \/ \E sid \in 1..MaxSinkObjs, name \in RegNames : Sink_setup(sid, name)
    \/ \E sid \in 1..MaxSinkObjs, name \in RegNames : Sink_clone(sid, name)
    \/ \E sid \in 1..MaxSinkObjs, level \in {Debug, Error} :
           Sink_set_level(sid, level)

SpecSink == SinkInit /\ [][NextSink]_vars

\* C20: for a sink of any variant, clone(new_name) returns no sink and makes
\* none when new_name is the sink's name; otherwise it returns a sink that
\* did not exist before, named new_name, of the source's variant and
\* resource and with the source's level, and leaves the source as it was;
\* set_level on one sink changes no other sink.
C20_SinkCloneContract ==
    /\ [][ret'.op = "sink_clone" =>
             IF sink_objs[ret'.src].name = ret'.name
             THEN ret'.res = NoRef /\ sink_objs' = sink_objs
             ELSE /\ ret'.res \in DOMAIN sink_objs' \ DOMAIN sink_objs
                  /\ sink_objs'[ret'.res].name = ret'.name
                  /\ sink_get_level(sink_objs'[ret'.res])
                       = sink_get_level(sink_objs[ret'.src])
                  /\ sink_objs'[ret'.res].kind = sink_objs[ret'.src].kind
                  /\ sink_objs'[ret'.res].openable = sink_objs[ret'.src].openable
                  /\ \A i \in DOMAIN sink_objs : sink_objs'[i] = sink_objs[i]]_vars
    /\ [][ret'.op = "sink_set_level" =>
             \A i \in DOMAIN sink_objs \ {ret'.src} :
                 sink_objs'[i] = sink_objs[i]]_vars

(***************************************************************************)
(* apply_logger_rules: rule text "pattern:level" clauses separated by      *)
(* ',' or ';'.                                                              *)
(***************************************************************************)

MaxClauses == 2

\* exact name, level by its initial
Cl_exact_d == <<"t", "e", "s", "t", "_", "d", "e", "b", "u", "g", ":", "d">>
\* wildcard, full level name in upper case
Cl_wild_full == <<"*", "_", "d", "e", "b", "u", "g", ":", "T", "R", "A", "C", "E">>
\* blanks around the clause, the pattern and the level; upper-case initial
Cl_spaced == <<" ", "o", "t", "h", "e", "r", "_", "d", "e", "b", "u", "g", " ", ":", " ", "E", "\t">>
\* no colon
Cl_no_colon == <<"t", "e", "s", "t", "_", "d", "e", "b", "u", "g">>
\* nothing before the colon
Cl_no_pattern == <<":", "d">>
\* nothing but a blank after the colon
Cl_no_level == <<"t", "e", "s", "t", "_", "d", "e", "b", "u", "g", ":", " ">>
\* a level name that is not parsed
Cl_bad_level == <<"t", "e", "s", "t", "_", "d", "e", "b", "u", "g", ":", "o", "f", "f">>
\* a second colon
Cl_two_colons == <<"t", "e", "s", "t", "_", "d", "e", "b", "u", "g", ":", "d", ":", "e">>
\* blanks only
Cl_blank == <<" ">>
\* empty clause
Cl_empty == <<>>

ClauseTexts ==
    {Cl_exact_d, Cl_wild_full, Cl_spaced, Cl_no_colon, Cl_no_pattern,
     Cl_no_level, Cl_bad_level, Cl_two_colons, Cl_blank, Cl_empty}
Separators == {",", ";"}

RECURSIVE RuleTexts(_)
RuleTexts(n) ==
    IF n = 1 THEN ClauseTexts
    ELSE RuleTexts(n - 1) \cup
         {t \o <<sep>> \o c : t \in RuleTexts(n - 1), sep \in Separators,
                              c \in ClauseTexts}

Blanks == {" ", "\t", "\r", "\n"}

\* s.find_first_not_of(" \t\r\n") and s.find_last_not_of(" \t\r\n"),
\* 1-based, 0 for npos
find_first_not_of(s) ==
    IF \A i \in DOMAIN s : s[i] \in Blanks THEN 0
    ELSE CHOOSE i \in DOMAIN s :
             s[i] \notin Blanks /\ \A j \in 1..(i - 1) : s[j] \in Blanks
find_last_not_of(s) ==
    IF \A i \in DOMAIN s : s[i] \in Blanks THEN 0
    ELSE CHOOSE i \in DOMAIN s :
             s[i] \notin Blanks /\ \A j \in (i + 1)..Len(s) : s[j] \in Blanks

\* (mutant) the last colon instead of the first
find_colon_last(s) ==
    IF \A i \in DOMAIN s : s[i] # ":" THEN 0
    ELSE CHOOSE i \in DOMAIN s : s[i] = ":" /\ \A j \in (i + 1)..Len(s) : s[j] # ":"

\* s.find(':'), 1-based, 0 for npos
find_colon(s) ==
    IF \A i \in DOMAIN s : s[i] # ":" THEN 0
    ELSE CHOOSE i \in DOMAIN s : s[i] = ":" /\ \A j \in 1..(i - 1) : s[j] # ":"

UpperCase == <<"A", "B", "C", "D", "E", "F", "G", "H", "I", "J", "K", "L", "M",
               "N", "O", "P", "Q", "R", "S", "T", "U", "V", "W", "X", "Y", "Z">>
LowerCase == <<"a", "b", "c", "d", "e", "f", "g", "h", "i", "j", "k", "l", "m",
               "n", "o", "p", "q", "r", "s", "t", "u", "v", "w", "x", "y", "z">>

tolower(c) ==
    IF \E i \in DOMAIN UpperCase : UpperCase[i] = c
    THEN LowerCase[CHOOSE i \in DOMAIN UpperCase : UpperCase[i] = c]
    ELSE c

level_names == <<<<"t", "r", "a", "c", "e">>, <<"d", "e", "b", "u", "g">>, <<"i", "n", "f", "o">>, <<"w", "a", "r", "n", "i", "n", "g">>, <<"e", "r", "r", "o", "r">>>>
levels == <<Trace, Debug, Info, Warning, Error>>

\* log_level_from_name(level, default_level)
log_level_from_name(level, default_level) ==
    IF level = <<>> THEN default_level
    ELSE LET in == [i \in DOMAIN level |-> tolower(level[i])]
             hits == {i \in DOMAIN level_names :
                         \/ Len(in) = 1 /\ level_names[i][1] = in[1]
                         \/ level_names[i] = in} IN
         IF hits = {} THEN default_level
         ELSE levels[CHOOSE i \in hits : \A j \in hits : i <= j]

\* the registry's rule tables and loggers, as set_logger_level_rule sees them
Tables == [reg |-> registry, exact |-> level_rules, regexes |-> regex_level_rules]

\* LoggerRegistry::set_logger_level_rule on given tables
set_logger_level_rule(tb, pattern, level) ==
    IF pattern = <<>> THEN tb
    ELSE LET cl == Classify(pattern, FALSE)
             is_regex == cl.has_wildcard \/ cl.has_regex_special
             text == RegexText(pattern)
             tb1 == IF RegexCompiles(text) /\ is_regex
                    THEN [tb EXCEPT !.regexes =
                             Append(@, [pattern |-> pattern, regex |-> text,
                                        level |-> level])]
                    ELSE [tb EXCEPT !.exact = PutRule(@, pattern, level)] IN
         [tb1 EXCEPT !.reg = apply_rules_to_existing_loggers(
                                  @, pattern, level, is_regex)]

SubStr(s, from, to) == SubSeq(s, from, to)

\* what apply_logger_rules does with one non-empty current_rule
\* (acc: the tables and applied_count so far)
ProcessRule(acc, current_rule) ==
    LET start == find_first_not_of(current_rule)
        end == find_last_not_of(current_rule) IN
    IF start = 0 \/ end = 0 THEN acc
    ELSE LET trimmed_rule == SubStr(current_rule, start, end)
             colon_pos == find_colon(trimmed_rule) IN
         IF ~(colon_pos # 0 /\ colon_pos > 1 /\ colon_pos < Len(trimmed_rule))
         THEN acc
         ELSE LET pattern == SubStr(trimmed_rule, 1, colon_pos - 1)
                  level_str == SubStr(trimmed_rule, colon_pos + 1,
                                      Len(trimmed_rule))
                  pattern_start == find_first_not_of(pattern)
                  pattern_end == find_last_not_of(pattern)
                  level_start == find_first_not_of(level_str)
                  level_end == find_last_not_of(level_str) IN
              IF pattern_start = 0 \/ pattern_end = 0
                 \/ level_start = 0 \/ level_end = 0
              THEN acc
              ELSE LET level == log_level_from_name(
                                   SubStr(level_str, level_start, level_end),
                                   Unknown) IN
                   IF level = Unknown THEN acc
                   ELSE [tb |-> set_logger_level_rule(
                                    acc.tb,
                                    SubStr(pattern, pattern_start, pattern_end),
                                    level),
                         applied_count |-> acc.applied_count + 1]

\* the loop of apply_logger_rules from position i on; position
\* Len(rule_text) + 1 stands for the terminating character
RECURSIVE RuleLoop(_, _, _, _)
RuleLoop(rule_text, i, current_rule, acc) ==
    IF i > Len(rule_text) + 1 THEN acc
    ELSE IF i = Len(rule_text) + 1 \/ rule_text[i] \in Separators
    THEN RuleLoop(rule_text, i + 1, <<>>,
                  IF current_rule # <<>> THEN ProcessRule(acc, current_rule)
                  ELSE acc)
    ELSE RuleLoop(rule_text, i + 1, Append(current_rule, rule_text[i]), acc)

\* apply_logger_rules(rule_text) on given tables
RulesApplied(tb, rule_text) ==
    IF rule_text = <<>> THEN [tb |-> tb, applied_count |-> 0]
    ELSE RuleLoop(rule_text, 1, <<>>, [tb |-> tb, applied_count |-> 0])

\* slog::apply_logger_rules(rule_text), called once on the loggers made so far
apply_logger_rules ==
    /\ ret.op = "none"
    /\ \E rule_text \in RuleTexts(MaxClauses) :
           LET r == RulesApplied(Tables, rule_text) IN
           /\ Len(r.tb.regexes) <= MaxRules
           /\ registry' = r.tb.reg
           /\ level_rules' = r.tb.exact
           /\ regex_level_rules' = r.tb.regexes
           /\ last' = [op |-> "apply_rules", name |-> rule_text,
                       level |-> Unknown]
           /\ ret' = [op |-> "apply_logger_rules", name |-> rule_text,
                      src |-> NoRef, res |-> r.applied_count]
    /\ UNCHANGED <<sink_objs, logger_objs, registry_, default_logger_, reg_order>>
    /\ UNCHANGED <<fvars, lvars, cvars, svars>>

ParseInit ==
    /\ registry = NoRegistry
    /\ level_rules = <<>>
    /\ regex_level_rules = <<>>
    /\ last = NoOp
    /\ cfg = [max_file_size |-> 0, max_files |-> 0, flush_on_write |-> TRUE]
    /\ sinkUp = [s \in Sinks |-> FALSE]
    /\ file_state = NoState
    /\ file_mutex = NoProc
    /\ disk = [g \in Gens |-> NoFile]
    /\ pc = [p \in Procs |-> "idle"]
    /\ cur = [p \in Procs |-> NoCall]
    /\ calls = 0
    /\ accepted = {}
    /\ discarded = <<>>
    /\ clobbered = <<>>
    /\ rotations = 0
    /\ lock_order = <<>>
    /\ thr = <<>>
    /\ mtx = <<>>
    /\ state_objs = <<>>
    /\ file_states = <<>>
    /\ file_sinks = <<>>
    /\ limited_items_ = <<>>
    /\ lim_logger = NoLogger
    /\ limited_items = <<>>
    /\ win = <<>>
    /\ lastcall = NoLimited
    /\ sink_objs = <<>>
    /\ logger_objs = <<>>
    /\ registry_ = <<>>
    /\ default_logger_ = NoRef
    /\ reg_order = <<>>
    /\ ret = NoOp

NextParse ==
    \/ apply_logger_rules
    \/ \E name \in {N_test_debug} : make_logger(name, <<Info>>)

SpecParse == ParseInit /\ [][NextParse]_vars

\* ------------------------------------------------------------------------
\* Properties of apply_logger_rules
\* ------------------------------------------------------------------------
\* the clauses of a text: the stretches between separators, in text order
RECURSIVE Clauses(_)
Clauses(text) ==
    LET seps == {i \in DOMAIN text : text[i] \in Separators} IN
    IF seps = {} THEN <<text>>
    ELSE LET k == Earliest(seps) IN
         <<SubSeq(text, 1, k - 1)>> \o Clauses(SubSeq(text, k + 1, Len(text)))

\* s without the blanks at its ends
Strip(s) ==
    LET solid == {i \in DOMAIN s : s[i] \notin Blanks} IN
    IF solid = {} THEN <<>>
    ELSE SubSeq(s, Earliest(solid),
                CHOOSE i \in solid : \A j \in solid : j <= i)

NoRule == [pattern |-> <<>>, level |-> Unknown]

\* the rule a clause states: pattern before the first colon, level after it
ClauseRule(clause) ==
    LET t == Strip(clause)
        colons == {i \in DOMAIN t : t[i] = ":"} IN
    IF colons = {} THEN NoRule
    ELSE LET k == Earliest(colons) IN
         [pattern |-> Strip(SubSeq(t, 1, k - 1)),
          level |-> log_level_from_name(Strip(SubSeq(t, k + 1, Len(t))), Unknown)]

WellFormed(clause) ==
    ClauseRule(clause).pattern # <<>> /\ ClauseRule(clause).level # Unknown

\* set_logger_level(pattern, level) for each of the clauses, in order
RECURSIVE RulesSetInOrder(_, _)
RulesSetInOrder(tb, clauses) ==
    IF clauses = <<>> THEN tb
    ELSE RulesSetInOrder(
             set_logger_level_rule(tb, ClauseRule(Head(clauses)).pattern,
                                   ClauseRule(Head(clauses)).level),
             Tail(clauses))

\* C17: apply_logger_rules(text) returns the number of clauses of text,
\* split on ',' and ';', that state a non-empty pattern and a parsable
\* level, and leaves the rule tables and the loggers as set_logger_level
\* for each of these clauses, in text order, leaves them; the other clauses
\* have no effect.
C17_ApplyLoggerRules ==
    [][(ret.op = "none" /\ ret'.op = "apply_logger_rules") =>
          LET good == SelectSeq(Clauses(ret'.name), WellFormed)
              tb == RulesSetInOrder(Tables, good) IN
          /\ ret'.res = Len(good)
          /\ registry' = tb.reg
          /\ level_rules' = tb.exact
          /\ regex_level_rules' = tb.regexes]_vars

\* a malformed clause was followed by a well-formed one that reached a logger
C17_Witness ==
    /\ ret.op = "apply_logger_rules"
    /\ ret.name = Cl_no_colon \o <<",">> \o Cl_exact_d
    /\ ret.res = 1
    /\ N_test_debug \in DOMAIN registry
    /\ get_level(registry[N_test_debug]) = Debug
    /\ level_rules = PutRule(<<>>, N_test_debug, Debug)

(***************************************************************************)
(* Manual levels and global rules: Logger::set_level on registered         *)
(* loggers, interleaved with set_logger_level.                             *)
(***************************************************************************)

ManualLevels == {Warning, Error}

\* get_logger(name)->set_level(level)
manual_set_level(name, level) ==
    /\ name \in DOMAIN registry
    /\ registry' = [registry EXCEPT ![name] = set_level(@, level)]
    /\ last' = [op |-> "set_level", name |-> name, level |-> level]
    /\ UNCHANGED <<level_rules, regex_level_rules>>
    /\ UNCHANGED <<fvars, lvars, hvars, cvars, svars>>

NextManual ==
    \/ \E pattern \in Patterns, level \in RuleLevels :
           set_logger_level(pattern, level)
    \/ \E name \in Names : make_logger(name, <<Info>>)
    \/ \E name \in Names, level \in ManualLevels : manual_set_level(name, level)

SpecManual == RulesInit /\ [][NextManual]_vars

\* every logger is made at Info, so a sink level in ManualLevels is one that
\* set_level has put there
ManuallySet(lg) == \E j \in DOMAIN lg.sinks : lg.sinks[j].level \in ManualLevels

\* C19: a set_logger_level call leaves the level of every registered logger
\* whose level was set through Logger::set_level as it was, whether or not
\* the pattern matches the logger's name.
C19_ManualLevelKept ==
    [][last'.op = "set_rule" =>
          \A n \in DOMAIN registry :
              ManuallySet(registry[n]) =>
                  get_level(registry'[n]) = get_level(registry[n])]_vars

\* ------------------------------------------------------------------------
\* Threads and mutexes: every public operation as the sequence of its lock,
\* unlock and guarded steps (slog_logger.cpp, sink_file.cpp, sink_stdout.cpp)
\* ------------------------------------------------------------------------
Paths == {"A", "B"}

M_registry == "mutex_"
M_map == "map_mutex"
M_stdout == "stdout_mutex"
M_file(path) == IF path = "A" THEN "file_mutex_A" ELSE "file_mutex_B"

Mutexes == {M_registry, M_map, M_stdout} \cup {M_file(path) : path \in Paths}

\* one step of a thread: a is "lock", "unlock" or "do"; m is the mutex, or
\* what is done; f and path name the sink function the step belongs to
StepOf(a, m, f, path) == [a |-> a, m |-> m, f |-> f, path |-> path]

InRegistry(m) == StepOf("do", m, "LoggerRegistry", "")

\* a member function of LoggerRegistry: lock_guard on mutex_ around its body
Locked(body) ==
    <<StepOf("lock", M_registry, "LoggerRegistry", "")>> \o body
        \o <<StepOf("unlock", M_registry, "LoggerRegistry", "")>>

get_logger_level_rule_steps == Locked(<<InRegistry("regex_match")>>)

\* (mutant) the rule lookup is made after mutex_ is taken
register_logger_steps_lookup_locked ==
    Locked(get_logger_level_rule_steps \o <<InRegistry("registry_[name]")>>)

\* LoggerRegistry::register_logger: the rule lookup, then the insertion
register_logger_steps ==
    get_logger_level_rule_steps \o Locked(<<InRegistry("registry_[name]")>>)

\* LoggerRegistry::get_default: the default exists or is taken from the
\* registry; or it is constructed under mutex_ (the constructor of Logger
\* sets the Stdout sink up, which takes no lock), stored, and registered
\* after the unlock
get_default_steps(created) ==
    IF created
    THEN Locked(<<InRegistry("registry_.empty"),
                  StepOf("do", "name_", "Stdout::setup", ""),
                  InRegistry("default_logger_")>>) \o register_logger_steps
    ELSE Locked(<<InRegistry("default_logger_")>>)

\* LoggerRegistry::set_logger_level_rule: the tables and
\* apply_rules_to_existing_loggers under one lock_guard
set_logger_level_steps ==
    Locked(<<InRegistry("level_rules_"),
             InRegistry("apply_rules_to_existing_loggers")>>)

drop_logger_steps == Locked(<<InRegistry("registry_.erase")>>)

has_logger_steps == Locked(<<InRegistry("registry_.find")>>)

set_default_steps == Locked(<<InRegistry("registry_.find"),
                              InRegistry("default_logger_")>>)

get_logger_rules_steps == Locked(<<InRegistry("level_rules_"),
                                   InRegistry("regex_level_rules_")>>)

\* LoggerRegistry::empty: registry_.empty() with no lock_guard
empty_steps == <<InRegistry("registry_.empty")>>

\* File::get_file_mutex: map_mutex around the lookup in file_mutexes
get_file_mutex(f, path) ==
    <<StepOf("lock", M_map, f, path),
      StepOf("do", "file_mutexes", f, path),
      StepOf("unlock", M_map, f, path)>>

\* File::setup: the path's mutex around get_shared_file_state and the open
File_setup_steps(path) ==
    get_file_mutex("File::setup", path)
        \o <<StepOf("lock", M_file(path), "File::setup", path),
             StepOf("do", "get_shared_file_state", "File::setup", path),
             StepOf("unlock", M_file(path), "File::setup", path)>>

\* (mutant) map_mutex is kept until the write is done
File_log_steps_map_held(path) ==
    <<StepOf("lock", M_map, "File::log", path),
      StepOf("do", "file_mutexes", "File::log", path),
      StepOf("lock", M_file(path), "File::log", path),
      StepOf("do", "rotate_files", "File::log", path),
      StepOf("do", "write", "File::log", path),
      StepOf("unlock", M_file(path), "File::log", path),
      StepOf("unlock", M_map, "File::log", path)>>

\* File::log: formatting, then the path's mutex around rotation and write
File_log_steps(path) ==
    get_file_mutex("File::log", path)
        \o <<StepOf("lock", M_file(path), "File::log", path),
             StepOf("do", "rotate_files", "File::log", path),
             StepOf("do", "write", "File::log", path),
             StepOf("unlock", M_file(path), "File::log", path)>>

\* Stdout::log: the global stdout mutex around the output
Stdout_log_steps ==
    <<StepOf("lock", M_stdout, "Stdout::log", ""),
      StepOf("do", "write", "Stdout::log", ""),
      StepOf("unlock", M_stdout, "Stdout::log", "")>>

\* a sink is "Stdout" or a File on a path
SinkLists == {<<"Stdout">>, <<"A">>, <<"B">>, <<"Stdout", "A">>}

sink_log_steps(s) == IF s = "Stdout" THEN Stdout_log_steps ELSE File_log_steps(s)

sink_setup_steps(s) == IF s = "Stdout" THEN <<>> ELSE File_setup_steps(s)

RECURSIVE ForEachSink(_, _)
ForEachSink(sinks, setup) ==
    IF sinks = <<>> THEN <<>>
    ELSE (IF setup THEN sink_setup_steps(Head(sinks))
                   ELSE sink_log_steps(Head(sinks)))
             \o ForEachSink(Tail(sinks), setup)

\* Logger::log and Logger::log_limited: every sink's log in turn
Logger_log_steps(sinks) == ForEachSink(sinks, FALSE)

\* make_logger: the constructor sets every sink up, then register_logger
make_logger_steps(sinks) == ForEachSink(sinks, TRUE) \o register_logger_steps

\* Logger::clone: every sink's clone sets the new sink up, then
\* register_logger; a clone under the own name is default_logger()
clone_steps(sinks, same_name, created) ==
    IF same_name THEN get_default_steps(created)
    ELSE ForEachSink(sinks, TRUE) \o register_logger_steps

\* get_logger: the lookup; for an absent name the test of
\* LoggerRegistry::empty, then get_default(name) on an empty registry,
\* default_logger()->clone(name) otherwise
get_logger_steps(found, empty, sinks) ==
    Locked(<<InRegistry("registry_.find")>>)
        \o (IF found THEN <<>>
            ELSE IF empty THEN empty_steps \o get_default_steps(TRUE)
            ELSE empty_steps \o get_default_steps(FALSE)
                     \o clone_steps(sinks, FALSE, FALSE))

\* apply_logger_rules: one set_logger_level per accepted clause
RECURSIVE apply_logger_rules_steps(_)
apply_logger_rules_steps(n) ==
    IF n = 0 THEN <<>>
    ELSE set_logger_level_steps \o apply_logger_rules_steps(n - 1)

\* the public calls a thread can make, each with its steps
Programs ==
    {[op |-> "register_logger", todo |-> make_logger_steps(sinks)] :
         sinks \in SinkLists}
    \cup {[op |-> "get_logger", todo |-> get_logger_steps(TRUE, FALSE, <<>>)],
          [op |-> "get_logger", todo |-> get_logger_steps(FALSE, TRUE, <<>>)]}
    \cup {[op |-> "get_logger", todo |-> get_logger_steps(FALSE, FALSE, sinks)] :
              sinks \in SinkLists}
    \cup {[op |-> "default_logger", todo |-> get_default_steps(created)] :
              created \in BOOLEAN}
    \cup {[op |-> "drop_logger", todo |-> drop_logger_steps],
          [op |-> "set_logger_level", todo |-> set_logger_level_steps],
          [op |-> "has_logger", todo |-> has_logger_steps],
          [op |-> "set_default_logger", todo |-> set_default_steps],
          [op |-> "get_logger_rules", todo |-> get_logger_rules_steps]}
    \cup {[op |-> "apply_logger_rules", todo |-> apply_logger_rules_steps(n)] :
              n \in 1..MaxClauses}
    \cup {[op |-> "clone", todo |-> clone_steps(sinks, same, created)] :
              sinks \in SinkLists, same \in BOOLEAN, created \in BOOLEAN}
    \cup {[op |-> "log", todo |-> Logger_log_steps(sinks)] : sinks \in SinkLists}
    \cup {[op |-> "log_limited", todo |-> Logger_log_steps(sinks)] :
              sinks \in SinkLists}

Idle == [op |-> "idle", todo |-> <<>>]

\* the thread after its next step; the call returns with its last step
Advance(t) ==
    IF Len(thr[t].todo) = 1 THEN [thr EXCEPT ![t] = Idle]
    ELSE [thr EXCEPT ![t].todo = Tail(@)]

\* a thread enters a public call
Call(t, prog) ==
    /\ thr[t] = Idle
    /\ thr' = [thr EXCEPT ![t] = prog]
    /\ UNCHANGED mtx
    /\ UNCHANGED <<fvars, rvars, lvars, hvars, svars>>

\* std::lock_guard's constructor: blocks while the mutex is held, by
\* whichever thread (std::mutex is not recursive)
Acquire(t) ==
    /\ thr[t].todo # <<>>
    /\ Head(thr[t].todo).a = "lock"
    /\ mtx[Head(thr[t].todo).m] = NoProc
    /\ mtx' = [mtx EXCEPT ![Head(thr[t].todo).m] = t]
    /\ thr' = Advance(t)
    /\ UNCHANGED <<fvars, rvars, lvars, hvars, svars>>

\* std::lock_guard's destructor
Unlock(t) ==
    /\ thr[t].todo # <<>>
    /\ Head(thr[t].todo).a = "unlock"
    /\ mtx' = [mtx EXCEPT ![Head(thr[t].todo).m] = NoProc]
    /\ thr' = Advance(t)
    /\ UNCHANGED <<fvars, rvars, lvars, hvars, svars>>

\* a step that takes and frees no mutex
Work(t) ==
    /\ thr[t].todo # <<>>
    /\ Head(thr[t].todo).a = "do"
    /\ thr' = Advance(t)
    /\ UNCHANGED mtx
    /\ UNCHANGED <<fvars, rvars, lvars, hvars, svars>>

LocksInit ==
    /\ thr = [t \in Procs |-> Idle]
    /\ mtx = [m \in Mutexes |-> NoProc]
    /\ lock_order = <<>>
    /\ state_objs = <<>>
    /\ file_states = <<>>
    /\ file_sinks = <<>>
    /\ limited_items_ = <<>>
    /\ sink_objs = <<>>
    /\ logger_objs = <<>>
    /\ registry_ = <<>>
    /\ default_logger_ = NoRef
    /\ reg_order = <<>>
    /\ ret = NoOp
    /\ level_rules = <<>>
    /\ regex_level_rules = <<>>
    /\ registry = NoRegistry
    /\ last = NoOp
    /\ lim_logger = NoLogger
    /\ limited_items = <<>>
    /\ win = <<>>
    /\ lastcall = NoLimited
    /\ cfg = [max_file_size |-> 0, max_files |-> 0, flush_on_write |-> TRUE]
    /\ sinkUp = [s \in Sinks |-> FALSE]
    /\ file_state = NoState
    /\ file_mutex = NoProc
    /\ disk = [g \in Gens |-> NoFile]
    /\ pc = [p \in Procs |-> "idle"]
    /\ cur = [p \in Procs |-> NoCall]
    /\ calls = 0
    /\ accepted = {}
    /\ discarded = <<>>
    /\ clobbered = <<>>
    /\ rotations = 0

NextLocks ==
    \/ \E t \in Procs, prog \in Programs : Call(t, prog)
    \/ \E t \in Procs : Acquire(t)
    \/ \E t \in Procs : Unlock(t)
    \/ \E t \in Procs : Work(t)

SpecLocks == LocksInit /\ [][NextLocks]_vars

\* a thread that can run runs; a thread at a lock that is free again and
\* again gets it
Fairness ==
    \A t \in Procs :
        /\ WF_vars(Unlock(t) \/ Work(t))
        /\ SF_vars(Acquire(t))

SpecLocksFair == LocksInit /\ [][NextLocks]_vars /\ Fairness

\* the mutex a thread is blocked at, the mutexes it holds
WaitsFor(t, m) ==
    /\ thr[t].todo # <<>>
    /\ Head(thr[t].todo).a = "lock"
    /\ Head(thr[t].todo).m = m
    /\ mtx[m] # NoProc

Held(t) == {m \in Mutexes : mtx[m] = t}

\* the thread is inside File::log of a sink on the path
Emitting(t, path) ==
    /\ thr[t].todo # <<>>
    /\ Head(thr[t].todo).f = "File::log"
    /\ Head(thr[t].todo).path = path

Contend(t, u, m) ==
    \E pa, pb \in Paths :
        /\ pa # pb
        /\ Emitting(t, pa) /\ WaitsFor(t, m)
        /\ Emitting(u, pb) /\ mtx[m] = u

NoHoldAndWait ==
    \A t \in Procs :
        (thr[t].todo # <<>> /\ Head(thr[t].todo).a = "lock") => Held(t) = {}

\* C23: no thread waits for a mutex while it holds another one (or the
\* same one), so no cycle of waiting threads can form, and with fair
\* scheduling every call that was entered returns.
C23_EveryCallReturns ==
    /\ []NoHoldAndWait
    /\ \A t \in Procs : (thr[t] # Idle) ~> (thr[t] = Idle)

C23_Witness ==
    /\ WaitsFor(1, M_registry)
    /\ thr[1].op = "register_logger"
    /\ mtx[M_registry] = 2
    /\ Head(thr[2].todo).m = "apply_rules_to_existing_loggers"
    /\ Len(thr[1].todo) = 3

\* ------------------------------------------------------------------------
\* A Logger's filter level and the levels of its sinks, by reference
\* ------------------------------------------------------------------------
\* Logger::set_level on the Logger id: every owned sink, then the filter
R_set_level(st, id, level) ==
    LET so1 == [i \in DOMAIN st.so |->
                   IF Owns(st.lo[id], i)
                   THEN sink_set_level(st.so[i], level) ELSE st.so[i]] IN
    [st EXCEPT !.so = so1, !.lo[id] = Refiltered(so1, st.lo[id])]

\* logger->set_level(level) on a Logger the caller holds
set_level_ref(id, level) ==
    /\ id \in DOMAIN logger_objs
    /\ Returns([st |-> R_set_level(St, id, level), res |-> id],
               "set_level", logger_objs[id].name, id)

NextFilter ==
    \/ \E name \in RegNames, sink \in SinkChoices, uninit \in {Trace, Off} :
           make_logger_ref(name, sink, uninit)
    \/ \E name \in RegNames, sid \in 1..MaxSinkObjs, uninit \in {Trace, Off} :
           make_logger_shared(name, sid, uninit)
    \/ \E id \in 1..MaxLoggerObjs, level \in SetLevels : set_level_ref(id, level)
    \/ \E sid \in 1..MaxSinkObjs, level \in SetLevels : Sink_set_level(sid, level)

SpecFilter == RegInit /\ [][NextFilter]_vars

\* the minimum of the current levels of the Logger's sinks
SinksMinimum(lg) == MinLevel(SinkRecs(sink_objs, lg.sinks), Off)

\* C24: the min_level of every (valid) Logger, which get_level reports and
\* log tests, is the minimum of its sinks' current levels, also after a
\* sink's own set_level.
C24_MinLevelIsSinksMinimum ==
    \A id \in DOMAIN logger_objs :
        logger_objs[id].valid =>
            /\ logger_objs[id].min_level = SinksMinimum(logger_objs[id])
            /\ get_level(logger_objs[id]) = SinksMinimum(logger_objs[id])

\* ------------------------------------------------------------------------
\* SharedFileState by reference: File::setup, get_shared_file_state and
\* the end of a File sink, run by threads (sink_file.cpp)
\* ------------------------------------------------------------------------
MaxFileSinks == 3

FileSinkIds == 1..MaxFileSinks

NotInSetup == [op |-> "idle", s |-> NoRef, pc |-> "", snap |-> <<>>]

\* shared_ptr bookkeeping: the sink's file_state_ goes from old to new; a
\* state without owner is destroyed, which closes its stream
Reassigned(objs, old, new) ==
    [i \in DOMAIN objs |->
        LET n == objs[i].owners + (IF i = new THEN 1 ELSE 0)
                                - (IF i = old THEN 1 ELSE 0) IN
        [objs[i] EXCEPT !.owners = n,
                        !.is_open = IF n = 0 THEN FALSE ELSE @]]

\* weak_ptr::lock() on the map's entry for the path: the state, or none
LockedEntry(map, path) ==
    IF map[path] # NoRef /\ state_objs[map[path]].owners > 0
    THEN map[path] ELSE NoRef

\* File(level, filepath, 0, 1, flush_on_write) of make_file_logger and
\* File(level, filepath, max_file_size, max_files, flush_on_write) of
\* make_rotating_file_logger
PlainFile == [max_file_size |-> 0, max_files |-> 1, flush_on_write |-> TRUE]
RotatingFile == [max_file_size |-> 2, max_files |-> 2, flush_on_write |-> FALSE]

\* std::make_shared<File>(level, filepath, max_file_size, max_files,
\* flush_on_write)
File_make(path, c) ==
    /\ Len(file_sinks) < MaxFileSinks
    /\ file_sinks' = Append(file_sinks,
                            [path |-> path, file_state_ |-> NoRef,
                             alive |-> TRUE, cfg |-> c])
    /\ UNCHANGED <<state_objs, file_states, thr, mtx>>
    /\ UNCHANGED <<fvars, rvars, lvars, hvars, limited_items_>>

\* File::setup: lock_guard on get_file_mutex(filepath_)
SetupLock(t, s) ==
    /\ thr[t] = NotInSetup
    /\ s \in DOMAIN file_sinks
    /\ file_sinks[s].alive
    /\ \A u \in Procs : thr[u].s # s
    /\ mtx[M_file(file_sinks[s].path)] = NoProc
    /\ mtx' = [mtx EXCEPT ![M_file(file_sinks[s].path)] = t]
    /\ thr' = [thr EXCEPT ![t] = [op |-> "setup", s |-> s, pc |-> "find",
                                  snap |-> file_states]]
    /\ UNCHANGED <<state_objs, file_states, file_sinks>>
    /\ UNCHANGED <<fvars, rvars, lvars, hvars, limited_items_>>

\* get_shared_file_state: file_states.find and weak_ptr::lock; a live state
\* is returned and becomes the sink's file_state_
SetupFind(t) ==
    /\ thr[t].pc = "find"
    /\ LET s == thr[t].s
           id == LockedEntry(file_states, file_sinks[s].path) IN
       IF id # NoRef
       THEN /\ state_objs' = Reassigned(state_objs, file_sinks[s].file_state_, id)
            /\ file_sinks' = [file_sinks EXCEPT ![s].file_state_ = id]
            /\ thr' = [thr EXCEPT ![t].pc = "open"]
       ELSE /\ thr' = [thr EXCEPT ![t].pc = "insert", ![t].snap = file_states]
            /\ UNCHANGED <<state_objs, file_sinks>>
    /\ UNCHANGED <<file_states, mtx>>
    /\ UNCHANGED <<fvars, rvars, lvars, hvars, limited_items_>>

\* file_states[filepath] = state
Inserted(map, path, id) == [map EXCEPT ![path] = id]

\* get_shared_file_state: make_shared<SharedFileState> and the store into
\* file_states. The map is a function-static unordered_map that only the
\* path's mutex protects: when a thread working on another path has changed
\* it since this thread's find, the two unsynchronised accesses race, and
\* the store either lands in the current map or in the map as it was found
\* (the other thread's entry is lost)
SetupInsert(t, raced) ==
    /\ thr[t].pc = "insert"
    /\ raced => thr[t].snap # file_states
    /\ LET s == thr[t].s
           id == Len(state_objs) + 1
           objs == Append(state_objs,
                          [path |-> file_sinks[s].path, owners |-> 0,
                           is_open |-> FALSE, cfg |-> file_sinks[s].cfg]) IN
       /\ state_objs' = Reassigned(objs, file_sinks[s].file_state_, id)
       /\ file_states' = Inserted(IF raced THEN thr[t].snap ELSE file_states,
                                  file_sinks[s].path, id)
       /\ file_sinks' = [file_sinks EXCEPT ![s].file_state_ = id]
    /\ thr' = [thr EXCEPT ![t].pc = "open"]
    /\ UNCHANGED mtx
    /\ UNCHANGED <<fvars, rvars, lvars, hvars, limited_items_>>

\* File::setup: the file is opened unless the state's stream is open; the
\* open can fail; end of the lock_guard
SetupOpen(t, ok) ==
    /\ thr[t].pc = "open"
    /\ LET s == thr[t].s
           id == file_sinks[s].file_state_ IN
       /\ state_objs' = IF state_objs[id].is_open THEN state_objs
                        ELSE [state_objs EXCEPT ![id].is_open = ok]
       /\ mtx' = [mtx EXCEPT ![M_file(file_sinks[s].path)] = NoProc]
    /\ thr' = [thr EXCEPT ![t] = NotInSetup]
    /\ UNCHANGED <<file_states, file_sinks>>
    /\ UNCHANGED <<fvars, rvars, lvars, hvars, limited_items_>>

\* the last shared_ptr to the sink goes away: ~File releases file_state_
File_destroy(s) ==
    /\ s \in DOMAIN file_sinks
    /\ file_sinks[s].alive
    /\ \A u \in Procs : thr[u].s # s
    /\ state_objs' = Reassigned(state_objs, file_sinks[s].file_state_, NoRef)
    /\ file_sinks' = [file_sinks EXCEPT ![s].alive = FALSE,
                                        ![s].file_state_ = NoRef]
    /\ UNCHANGED <<file_states, thr, mtx>>
    /\ UNCHANGED <<fvars, rvars, lvars, hvars, limited_items_>>

SharedInit ==
    /\ thr = [t \in Procs |-> NotInSetup]
    /\ mtx = [m \in Mutexes |-> NoProc]
    /\ lock_order = <<>>
    /\ state_objs = <<>>
    /\ file_states = [path \in Paths |-> NoRef]
    /\ file_sinks = <<>>
    /\ limited_items_ = <<>>
    /\ sink_objs = <<>>
    /\ logger_objs = <<>>
    /\ registry_ = <<>>
    /\ default_logger_ = NoRef
    /\ reg_order = <<>>
    /\ ret = NoOp
    /\ level_rules = <<>>
    /\ regex_level_rules = <<>>
    /\ registry = NoRegistry
    /\ last = NoOp
    /\ lim_logger = NoLogger
    /\ limited_items = <<>>
    /\ win = <<>>
    /\ lastcall = NoLimited
    /\ cfg = [max_file_size |-> 0, max_files |-> 0, flush_on_write |-> TRUE]
    /\ sinkUp = [s \in Sinks |-> FALSE]
    /\ file_state = NoState
    /\ file_mutex = NoProc
    /\ disk = [g \in Gens |-> NoFile]
    /\ pc = [p \in Procs |-> "idle"]
    /\ cur = [p \in Procs |-> NoCall]
    /\ calls = 0
    /\ accepted = {}
    /\ discarded = <<>>
    /\ clobbered = <<>>
    /\ rotations = 0

NextShared ==
    \/ \E path \in Paths : File_make(path, PlainFile)
    \/ \E t \in Procs, s \in FileSinkIds : SetupLock(t, s)
    \/ \E t \in Procs : SetupFind(t)
    \/ \E t \in Procs, raced \in BOOLEAN : SetupInsert(t, raced)
    \/ \E t \in Procs, ok \in BOOLEAN : SetupOpen(t, ok)
    \/ \E s \in FileSinkIds : File_destroy(s)

SpecShared == SharedInit /\ [][NextShared]_vars

\* the File sinks that are alive and hold a state, on the path
Holders(path) ==
    {s \in DOMAIN file_sinks :
        /\ file_sinks[s].alive
        /\ file_sinks[s].path = path
        /\ file_sinks[s].file_state_ # NoRef}

OpenStates(path) ==
    {i \in DOMAIN state_objs : state_objs[i].path = path /\ state_objs[i].is_open}

\* C25: all File sinks that were set up on one path and are alive hold the
\* same SharedFileState, and at most one stream is open per path.
C25_OneStatePerPath ==
    \A path \in Paths :
        /\ \A s1, s2 \in Holders(path) :
              file_sinks[s1].file_state_ = file_sinks[s2].file_state_
        /\ Cardinality(OpenStates(path)) <= 1

\* ------------------------------------------------------------------------
\* Logger::log_limited called by two threads on one Logger: the accesses of
\* limited_allowed_left to ctrl.count are unsynchronised
\* ------------------------------------------------------------------------
\* the allowed_num the callers pass for a tag
AllowedOf(tag) == IF tag = "t1" THEN 1 ELSE 2

NotLimiting == [pc |-> "idle", tag |-> "", level |-> Off, seen |-> 0, left |-> 0]

InFlight(tag) == {u \in Procs : thr[u].pc # "idle" /\ thr[u].tag = tag}

\* (mutant) ctrl.count ++ stores the value it read
Incremented_nothing(count) == count

\* ctrl.count ++
Incremented(count) == count + 1

\* limited_allowed_left up to the test: the entry is found or created,
\* allowed is updated, ctrl.count is read for the test and for the result
LimitedRead(t, tag, level) ==
    /\ thr[t].pc = "idle"
    /\ lastcall.n < MaxLimited
    /\ LET ctrl == Requota(Found(tag, AllowedOf(tag)), AllowedOf(tag)) IN
       /\ limited_items' = PutItem(limited_items, tag, ctrl)
       /\ thr' = [thr EXCEPT ![t] =
                     IF ctrl.count < ctrl.allowed
                     THEN [pc |-> "incr", tag |-> tag, level |-> level,
                           seen |-> ctrl.count, left |-> QuotaLeft(ctrl)]
                     ELSE NotLimiting]
    /\ win' = [win EXCEPT ![tag].overlaps =
                   @ + (IF \E u \in Procs \ {t} :
                              thr[u].pc = "incr" /\ thr[u].tag = tag
                        THEN 1 ELSE 0)]
    /\ lastcall' = [op |-> "log_limited", n |-> lastcall.n + 1]
    /\ UNCHANGED <<lim_logger, mtx>>
    /\ UNCHANGED <<fvars, rvars, hvars, svars>>

\* ctrl.count ++ : a plain int and no lock, so the store adds one either to
\* the value the thread read for the test or to the value found now
LimitedIncr(t, reload) ==
    /\ thr[t].pc = "incr"
    /\ LET tag == thr[t].tag
           base == IF reload THEN limited_items[tag].count ELSE thr[t].seen IN
       limited_items' = [limited_items EXCEPT ![tag].count = Incremented(base)]
    /\ thr' = [thr EXCEPT ![t].pc = "emit"]
    /\ UNCHANGED <<lim_logger, win, lastcall, mtx>>
    /\ UNCHANGED <<fvars, rvars, hvars, svars>>

\* log_limited after limited_allowed_left: the gate and the sinks
LimitedEmit(t) ==
    /\ thr[t].pc = "emit"
    /\ win' = [win EXCEPT ![thr[t].tag].emits =
                   @ + (IF Admits(lim_logger, thr[t].level) /\ thr[t].left > 0
                        THEN 1 ELSE 0)]
    /\ thr' = [thr EXCEPT ![t] = NotLimiting]
    /\ UNCHANGED <<lim_logger, limited_items, lastcall, mtx>>
    /\ UNCHANGED <<fvars, rvars, hvars, svars>>

\* Logger::reset_limited(tag) while no call for the tag is under way
LimitedReset(tag) ==
    /\ InFlight(tag) = {}
    /\ tag \in DOMAIN limited_items
    /\ limited_items' = [limited_items EXCEPT ![tag].count = 0]
    /\ win' = [win EXCEPT ![tag] = [emits |-> 0, overlaps |-> 0]]
    /\ UNCHANGED <<lim_logger, thr, lastcall, mtx>>
    /\ UNCHANGED <<fvars, rvars, hvars, svars>>

RaceInit ==
    /\ lim_logger = Logger(N_test_debug, <<Sink(Info)>>)
    /\ limited_items = <<>>
    /\ win = [tag \in Tags |-> [emits |-> 0, overlaps |-> 0]]
    /\ lastcall = NoLimited
    /\ thr = [t \in Procs |-> NotLimiting]
    /\ mtx = <<>>
    /\ lock_order = <<>>
    /\ state_objs = <<>>
    /\ file_states = <<>>
    /\ file_sinks = <<>>
    /\ limited_items_ = <<>>
    /\ sink_objs = <<>>
    /\ logger_objs = <<>>
    /\ registry_ = <<>>
    /\ default_logger_ = NoRef
    /\ reg_order = <<>>
    /\ ret = NoOp
    /\ level_rules = <<>>
    /\ regex_level_rules = <<>>
    /\ registry = NoRegistry
    /\ last = NoOp
    /\ cfg = [max_file_size |-> 0, max_files |-> 0, flush_on_write |-> TRUE]
    /\ sinkUp = [s \in Sinks |-> FALSE]
    /\ file_state = NoState
    /\ file_mutex = NoProc
    /\ disk = [g \in Gens |-> NoFile]
    /\ pc = [p \in Procs |-> "idle"]
    /\ cur = [p \in Procs |-> NoCall]
    /\ calls = 0
    /\ accepted = {}
    /\ discarded = <<>>
    /\ clobbered = <<>>
    /\ rotations = 0

NextRace ==
    \/ \E t \in Procs, tag \in Tags, level \in LimitedLevels :
           LimitedRead(t, tag, level)
    \/ \E t \in Procs, reload \in BOOLEAN : LimitedIncr(t, reload)
    \/ \E t \in Procs : LimitedEmit(t)
    \/ \E tag \in Tags : LimitedReset(tag)

SpecRace == RaceInit /\ [][NextRace]_vars

\* messages of the tag handed to the sinks since the last reset, those of
\* calls that are past limited_allowed_left included
Emitting26(tag) ==
    win[tag].emits
        + Cardinality({u \in InFlight(tag) :
                          Admits(lim_logger, thr[u].level) /\ thr[u].left > 0})

\* C26: two calls for one tag can read the same count; between two resets
\* more than allowed messages can be emitted for the tag, and only that
\* way: the surplus is at most the number of calls that read the count
\* while another call for the tag had read it and not yet stored it.
C26_RateLimitRace ==
    \A tag \in Tags :
        /\ Emitting26(tag) <= AllowedOf(tag) + win[tag].overlaps
        /\ \A t, u \in InFlight(tag) :
              (t # u /\ thr[t].pc = "incr" /\ thr[u].pc = "incr"
                     /\ thr[t].seen = thr[u].seen) => win[tag].overlaps > 0

C26_Witness ==
    \E tag \in Tags :
        /\ InFlight(tag) = {}
        /\ win[tag].emits > AllowedOf(tag)
        /\ limited_items[tag].count <= AllowedOf(tag)

\* ------------------------------------------------------------------------
\* Logger::log_lines on every short text
\* ------------------------------------------------------------------------
MaxLineLen == 3

LineChars == {"a", "\r", "\n"}

\* every text of up to MaxLineLen characters out of a letter, "\r" and "\n"
ShortTexts == UNION {[1..n -> LineChars] : n \in 0..MaxLineLen}

NextLines ==
    \/ \E level \in LogLevels, msg \in ShortTexts \cup LineTexts :
           log_lines(level, msg)
    \/ \E level \in SetLevels : Logger_set_level(level)

SpecLines == LoggerInit /\ [][NextLines]_vars

\* the places of msg where a separator starts: every "\r", and every "\n"
\* that does not follow a "\r"
SepStarts(msg) ==
    {i \in DOMAIN msg :
        \/ msg[i] = "\r"
        \/ msg[i] = "\n" /\ (i = 1 \/ msg[i - 1] # "\r")}

\* "\r\n" is one separator of two characters
SepLen(msg, i) ==
    IF msg[i] = "\r" /\ i < Len(msg) /\ msg[i + 1] = "\n" THEN 2 ELSE 1

\* the k-th separator start, counted from the left
RECURSIVE NthSep(_, _)
NthSep(S, k) ==
    LET lo == CHOOSE i \in S : \A j \in S : i <= j IN
    IF k = 1 THEN lo ELSE NthSep(S \ {lo}, k - 1)

\* the piece of msg before its k-th separator, or after the last one
Segment(msg, k) ==
    LET S == SepStarts(msg)
        n == Cardinality(S)
        from == IF k = 1 THEN 1
                ELSE NthSep(S, k - 1) + SepLen(msg, NthSep(S, k - 1))
        to == IF k = n + 1 THEN Len(msg) ELSE NthSep(S, k) - 1 IN
    SubSeq(msg, from, to)

\* the segments joined again with the separators of msg
RECURSIVE Joined(_, _, _)
Joined(msg, lines, k) ==
    IF k > Len(lines) THEN <<>>
    ELSE lines[k]
         \o (IF k = Len(lines) THEN <<>>
             ELSE LET i == NthSep(SepStarts(msg), k) IN
                  SubSeq(msg, i, i + SepLen(msg, i) - 1))
         \o Joined(msg, lines, k + 1)

LinesCall ==
    /\ lastcall.op = "log_lines"
    /\ ~Rejected(lim_logger, lastcall.level)

\* C27: log_lines on a valid logger at an admitted level issues, for a
\* non-empty message, one log call per segment in order: separators + 1
\* calls, a separator being "\r\n" (once), a lone "\n" or a lone "\r"; the
\* segments hold no separator character, empty ones and the one after a
\* final separator included, and joined with the separators they give the
\* message back; an empty message issues no call.
C27_LogLines ==
    LinesCall =>
        LET msg == lastcall.msg
            lines == lastcall.lines IN
        IF msg = <<>> THEN lines = <<>>
        ELSE /\ Len(lines) = Cardinality(SepStarts(msg)) + 1
             /\ \A k \in DOMAIN lines :
                   /\ lines[k] = Segment(msg, k)
                   /\ \A j \in DOMAIN lines[k] : lines[k][j] \notin {"\r", "\n"}
             /\ Joined(msg, lines, 1) = msg
             /\ \A j \in DOMAIN lastcall.reached :
                   lastcall.reached[j] \in {0, Len(lines)}

C27_Witness ==
    /\ LinesCall
    /\ lastcall.msg = <<"\r", "\r", "\n">>
    /\ lastcall.lines = <<<<>>, <<>>, <<>>>>
    /\ \E j \in DOMAIN lastcall.reached : lastcall.reached[j] = 3

\* ------------------------------------------------------------------------
\* Classification of patterns and wildcard matching, on every short
\* pattern and name
\* ------------------------------------------------------------------------
MaxPatLen == 2

PatChars == {"a", "*", "?", "."}
NameChars == {"a", "b", "\n"}

ShortPatterns == UNION {[1..n -> PatChars] : n \in 1..MaxPatLen} \cup {<<"[">>}
ShortNames == UNION {[1..n -> NameChars] : n \in 0..MaxPatLen}

\* set_logger_level(pattern, level) while the tables hold fewer rules than
\* there are levels to give
set_rule(pattern, level) ==
    /\ Cardinality(DOMAIN level_rules) + Len(regex_level_rules)
           < Cardinality(RuleLevels)
    /\ set_logger_level(pattern, level)

\* LoggerRegistry::get_logger_level_rule(name)
get_rule(name) ==
    /\ last' = [op |-> "get_rule", name |-> name,
                level |-> get_logger_level_rule(name)]
    /\ UNCHANGED <<registry, level_rules, regex_level_rules>>
    /\ UNCHANGED <<fvars, lvars, hvars, cvars, svars>>

NextClassify ==
    \/ \E pattern \in ShortPatterns, level \in RuleLevels :
           set_rule(pattern, level)
    \/ \E name \in {<<"a">>, <<"\n">>} : get_rule(name)

SpecClassify == RulesInit /\ [][NextClassify]_vars

HasWildcard(pattern) == \E i \in DOMAIN pattern : pattern[i] \in {"*", "?"}
HasMeta(pattern) == \E i \in DOMAIN pattern : pattern[i] \in RegexSpecials

IsWildcardPattern(pattern) == HasWildcard(pattern) /\ ~HasMeta(pattern)

\* the name matches the pattern as a whole, '*' standing for any character
\* sequence and '?' for one character
RECURSIVE Glob(_, _)
Glob(name, pattern) ==
    IF pattern = <<>> THEN name = <<>>
    ELSE IF pattern[1] = "*"
         THEN \/ Glob(name, Tail(pattern))
              \/ name # <<>> /\ Glob(Tail(name), pattern)
    ELSE /\ name # <<>>
         /\ pattern[1] = "?" \/ pattern[1] = name[1]
         /\ Glob(Tail(name), Tail(pattern))

\* the set_rule step appends a rule for the pattern to the pattern list
AppendsRule(pattern, level) ==
    /\ Len(regex_level_rules') = Len(regex_level_rules) + 1
    /\ SubSeq(regex_level_rules', 1, Len(regex_level_rules)) = regex_level_rules
    /\ regex_level_rules'[Len(regex_level_rules')].pattern = pattern
    /\ regex_level_rules'[Len(regex_level_rules')].level = level
    /\ level_rules' = level_rules

\* the set_rule step writes the exact table's entry for the pattern
WritesExact(pattern, level) ==
    /\ level_rules' = PutRule(level_rules, pattern, level)
    /\ regex_level_rules' = regex_level_rules

\* a set_rule step classifies its pattern as the claim says
ClassifiedAsStated ==
    last'.op = "set_rule" =>
        LET pattern == last'.name
            level == last'.level IN
        IF IsWildcardPattern(pattern) THEN AppendsRule(pattern, level)
        ELSE IF HasMeta(pattern)
             THEN RegexCompiles(pattern) => AppendsRule(pattern, level)
        ELSE WritesExact(pattern, level)

\* the names a wildcard rule matches are those its pattern matches as a
\* shell pattern
WildcardMatches(names) ==
    \A j \in DOMAIN regex_level_rules :
        IsWildcardPattern(regex_level_rules[j].pattern) =>
            \A name \in names :
                regex_match(name, regex_level_rules[j].regex)
                    <=> Glob(name, regex_level_rules[j].pattern)

\* C28: a pattern with '*' or '?' and no other metacharacter is a wildcard
\* rule, one with another metacharacter a regex rule, any other an exact
\* rule; wildcard and regex rules are appended to the pattern list, an
\* exact rule overwrites the exact table's entry; a wildcard rule matches a
\* name exactly when the whole name matches with '*' for any character
\* sequence and '?' for one character.
C28_PatternClasses ==
    /\ [][ClassifiedAsStated]_vars
    /\ [](WildcardMatches(ShortNames))

\* ------------------------------------------------------------------------
\* A pattern that does not compile, and the logger that bears its text
\* ------------------------------------------------------------------------
BrokenNames == {P_broken, N_test_debug}

NextBroken ==
    \/ \E pattern \in {P_broken, P_wild_star}, level \in RuleLevels :
           set_logger_level(pattern, level)
    \/ \E name \in BrokenNames : make_logger(name, <<Info>>)
    \/ \E name \in BrokenNames : get_rule(name)
    \/ \E name \in BrokenNames : drop_logger(name)

SpecBroken == RulesInit /\ [][NextBroken]_vars

\* the pattern is taken for a regex and std::regex rejects it
CompileFails(pattern) ==
    /\ pattern # <<>>
    /\ HasMeta(pattern)
    /\ ~RegexCompiles(pattern)

\* C29: a pattern taken for a regex that does not compile is stored as an
\* exact rule and then acts as one for the logger named like the pattern:
\* get_rule on the pattern's text returns the level, a logger registered
\* later under that name gets the level, and a logger already registered
\* under that name gets it at once.
C29_BrokenPatternIsExactRule ==
    [][/\ (last'.op = "set_rule" /\ CompileFails(last'.name)) =>
             /\ WritesExact(last'.name, last'.level)
             /\ ResolveRule(level_rules', regex_level_rules', last'.name)
                    = last'.level
             /\ last'.name \in DOMAIN registry =>
                    get_level(registry'[last'.name]) = last'.level
       /\ (last'.op = "get_rule" /\ CompileFails(last'.name)
             /\ last'.name \in DOMAIN level_rules) =>
             last'.level = level_rules[last'.name]
       /\ (last'.op = "register" /\ CompileFails(last'.name)
             /\ last'.name \in DOMAIN level_rules) =>
             get_level(registry'[last'.name]) = level_rules[last'.name]
      ]_vars

\* ------------------------------------------------------------------------
\* Logger::clone(logger_name, level) under level rules
\* ------------------------------------------------------------------------
\* apply_rules_to_existing_loggers on the loggers the registry refers to
RECURSIVE R_apply_rules(_, _, _, _, _)
R_apply_rules(st, names, pattern, level, is_regex) ==
    IF names = <<>> THEN st
    ELSE LET n == Head(names)
             st1 == IF RuleReaches(pattern, is_regex, n)
                    THEN R_set_rule_level(st, st.reg[n], level) ELSE st IN
         R_apply_rules(st1, Tail(names), pattern, level, is_regex)

\* slog::set_logger_level(pattern, level)
set_logger_level_ref(pattern, level) ==
    LET cl == Classify(pattern, FALSE)
        is_regex == cl.has_wildcard \/ cl.has_regex_special
        tb == set_logger_level_rule(Tables, pattern, level)
        st == R_apply_rules(St, reg_order, pattern, level, is_regex) IN
    /\ Len(regex_level_rules) < MaxRules
    /\ level_rules' = tb.exact
    /\ regex_level_rules' = tb.regexes
    /\ sink_objs' = st.so
    /\ logger_objs' = st.lo
    /\ ret' = [op |-> "set_logger_level", name |-> pattern, src |-> NoRef,
               res |-> NoRef]
    /\ registry' = tb.reg
    /\ UNCHANGED <<registry_, default_logger_, reg_order, last>>
    /\ UNCHANGED <<fvars, lvars, cvars, svars>>

ForcedLevels == {Trace, Warning}

\* Logger::clone(logger_name, level) on a Logger the caller holds
clone_level(id, logger_name, level) ==
    /\ id \in DOMAIN logger_objs
    /\ \E begin \in Begins :
           LET r == R_clone(St, id, logger_name, begin, level) IN
           /\ Len(r.st.lo) <= MaxLoggerObjs
           /\ Len(r.st.so) <= MaxSinkObjs
           /\ sink_objs' = r.st.so
           /\ logger_objs' = r.st.lo
           /\ registry_' = r.st.reg
           /\ default_logger_' = r.st.def
           /\ reg_order' = r.st.order
           /\ ret' = [op |-> "clone_level", name |-> logger_name, src |-> id,
                      res |-> r.res, level |-> level]
    /\ UNCHANGED <<fvars, rvars, lvars, cvars, svars>>

NextForced ==
    \/ \E level \in {Debug, Error} : set_logger_level_ref(N_a, level)
    \/ \E name \in RegNames :
           make_logger_ref(name, NewSink("Stdout", Info, TRUE), Off)
    \/ \E id \in 1..MaxLoggerObjs, name \in RegNames, level \in ForcedLevels :
           clone_level(id, name, level)
    \/ \E name \in RegNames : drop_logger_ref(name)

SpecForced == RegInit /\ [][NextForced]_vars

\* C30: clone(new_name, level) under a name other than the logger's own
\* returns a new Logger that is registered under new_name and whose
\* get_level() is the supplied level, whatever the level of the source and
\* whatever rule holds for new_name.
C30_CloneForcesLevel ==
    [][(/\ ret'.op = "clone_level"
        /\ ret'.name # logger_objs[ret'.src].name) =>
          /\ ret'.res \notin DOMAIN logger_objs
          /\ ret'.res \in DOMAIN logger_objs'
          /\ logger_objs'[ret'.res].name = ret'.name
          /\ ret'.name \in DOMAIN registry_'
          /\ registry_'[ret'.name] = ret'.res
          /\ get_level([logger_objs'[ret'.res] EXCEPT
                           !.sinks = SinkRecs(sink_objs',
                                              logger_objs'[ret'.res].sinks)])
               = ret'.level
      ]_vars

\* the threads inside get_shared_file_state: between the lock of the path's
\* mutex and the end of the store, they read or write file_states
InCache == {t \in Procs : thr[t].pc \in {"find", "insert"}}

\* C31: the cache of states and the map of mutexes are guarded by the one
\* map mutex: two File sinks being set up at the same time on different
\* paths are never both inside the lookup or the insertion of the cache.
C31_CacheGuarded ==
    \A t, u \in InCache :
        t # u => file_sinks[thr[t].s].path = file_sinks[thr[u].s].path

\* ------------------------------------------------------------------------
\* limited_items_ of several Loggers (the member is per instance; a Logger
\* made by make_shared<Logger>() or by clone starts with an empty map)
\* ------------------------------------------------------------------------
ItemsOf(all, id) == IF id \in DOMAIN all THEN all[id] ELSE <<>>

\* the entry limited_allowed_left finds or creates in a Logger's map
LimitedEntry(items, tag, allowed_num) ==
    IF tag \in DOMAIN items THEN items[tag]
    ELSE [allowed |-> allowed_num, count |-> 0]

\* (mutant) the count of every tag of the Logger is zeroed
ResetItem_every_tag(items, tag) ==
    [k \in DOMAIN items |-> [items[k] EXCEPT !.count = 0]]

\* Logger::reset_limited on the Logger's map
ResetItem(items, tag) ==
    IF tag \in DOMAIN items THEN [items EXCEPT ![tag].count = 0] ELSE items

\* Logger::log_limited(tag, allowed_num, level, msg) on the Logger id
log_limited_ref(id, tag, level) ==
    /\ id \in DOMAIN logger_objs
    /\ LET items == ItemsOf(limited_items_, id)
           ctrl == Requota(LimitedEntry(items, tag, AllowedOf(tag)),
                           AllowedOf(tag))
           left == QuotaLeft(ctrl) IN
       /\ limited_items_' = PutItem(limited_items_, id,
                                    PutItem(items, tag, Consumed(ctrl)))
       /\ ret' = [op |-> "log_limited", name |-> tag, src |-> id,
                  res |-> NoRef,
                  emitted |-> Admits(logger_objs[id], level) /\ left > 0]
    /\ UNCHANGED <<sink_objs, logger_objs, registry_, default_logger_, reg_order>>
    /\ UNCHANGED <<state_objs, file_states, file_sinks>>
    /\ UNCHANGED <<fvars, rvars, lvars, cvars>>

\* Logger::reset_limited(tag) on the Logger id
reset_limited_ref(id, tag) ==
    /\ id \in DOMAIN logger_objs
    /\ limited_items_' =
           IF id \in DOMAIN limited_items_
           THEN [limited_items_ EXCEPT ![id] = ResetItem(@, tag)]
           ELSE limited_items_
    /\ ret' = [op |-> "reset_limited", name |-> tag, src |-> id,
               res |-> NoRef,
               was |-> LimitedEntry(ItemsOf(limited_items_, id), tag, 0).count]
    /\ UNCHANGED <<sink_objs, logger_objs, registry_, default_logger_, reg_order>>
    /\ UNCHANGED <<state_objs, file_states, file_sinks>>
    /\ UNCHANGED <<fvars, rvars, lvars, cvars>>

NextTags ==
    \/ make_logger_ref(N_a, NewSink("Stdout", Info, TRUE), Off)
    \/ clone(1, N_b)
    \/ \E id \in 1..MaxLoggerObjs, tag \in Tags, level \in LimitedLevels :
           log_limited_ref(id, tag, level)
    \/ \E id \in 1..MaxLoggerObjs, tag \in Tags : reset_limited_ref(id, tag)

SpecTags == RegInit /\ [][NextTags]_vars

\* the counter of a tag of a Logger, or that there is none
CounterOf(all, id, tag) ==
    IF tag \in DOMAIN ItemsOf(all, id) THEN ItemsOf(all, id)[tag]
    ELSE [allowed |-> -1, count |-> -1]

\* C32: reset_limited(tag) sets consumed to 0 for that tag of that Logger
\* only: its allowed is kept, the counters of the other tags and of the
\* other Loggers (clones included) are kept, and for a tag never used
\* nothing changes and no counter is created.
C32_ResetFrame ==
    [][ret'.op = "reset_limited" =>
          \A id \in DOMAIN logger_objs, tag \in Tags :
              LET old == CounterOf(limited_items_, id, tag)
                  new == CounterOf(limited_items_', id, tag) IN
              IF id = ret'.src /\ tag = ret'.name /\ old.count # -1
              THEN new = [allowed |-> old.allowed, count |-> 0]
              ELSE new = old
      ]_vars

\* a used-up tag was reset on a Logger whose other tag is in use and whose
\* clone has used the same tag
C32_Witness ==
    /\ ret.op = "reset_limited"
    /\ ret.was > 0
    /\ CounterOf(limited_items_, ret.src, ret.name).count = 0
    /\ \E tag \in Tags \ {ret.name} :
           CounterOf(limited_items_, ret.src, tag).count > 0
    /\ \E id \in DOMAIN logger_objs :
           /\ id # ret.src
           /\ logger_objs[id].name # logger_objs[ret.src].name
           /\ CounterOf(limited_items_, id, ret.name).count > 0

\* the thread's next step reads or writes registry_, default_logger_ or a
\* rule table
TouchesRegistry(t) ==
    /\ thr[t].todo # <<>>
    /\ Head(thr[t].todo).a = "do"
    /\ Head(thr[t].todo).f = "LoggerRegistry"

\* the thread's next step belongs to a sink's setup or log
InSink(t) ==
    /\ thr[t].todo # <<>>
    /\ Head(thr[t].todo).f \in
           {"File::setup", "File::log", "Stdout::setup", "Stdout::log"}

\* C33: every access a public operation makes to the registry's map, its
\* default logger and its rule tables is made with the registry mutex
\* held, the emptiness test of get_logger included, and the registry mutex
\* is not held during the setup or the output of a sink.
C33_RegistryGuarded ==
    \A t \in Procs :
        /\ TouchesRegistry(t) => mtx[M_registry] = t
        /\ InSink(t) => mtx[M_registry] # t

\* C34: a log_limited call that emits nothing because the Logger is not
\* valid or because the call's level is below min_level_ leaves the tag's
\* consumed count as it was, so filtered calls use up no quota.
C34_FilteredCallsKeepQuota ==
    (lastcall.op = "log_limited" /\ ~Admits(lim_logger, lastcall.level)) =>
        limited_items[lastcall.tag].count = lastcall.before.count

\* ------------------------------------------------------------------------
\* register_logger and set_logger_level_rule by two threads: each
\* lock_guard section is one step (slog_logger.cpp:511-528, 650-706)
\* ------------------------------------------------------------------------
NotRegistering == [pc |-> "idle", lg |-> NoLogger]

\* register_logger up to the end of the rule lookup: get_logger_level_rule
\* takes and frees mutex_, set_rule_level acts on the caller's Logger
RegisterLookup(t, name) ==
    /\ thr[t] = NotRegistering
    /\ thr' = [thr EXCEPT ![t] =
                  [pc |-> "insert",
                   lg |-> Registered(Logger(name, <<Sink(Info)>>))]]
    /\ UNCHANGED <<mtx, rvars>>
    /\ UNCHANGED <<fvars, lvars, hvars, svars>>

\* register_logger: lock_guard, registry_[logger->name()] = logger
RegisterInsert(t) ==
    /\ thr[t].pc = "insert"
    /\ registry' = PutItem(registry, thr[t].lg.name, thr[t].lg)
    /\ last' = [op |-> "register", name |-> thr[t].lg.name,
                level |-> get_level(thr[t].lg)]
    /\ thr' = [thr EXCEPT ![t] = NotRegistering]
    /\ UNCHANGED <<mtx, level_rules, regex_level_rules>>
    /\ UNCHANGED <<fvars, lvars, hvars, svars>>

MissInit ==
    /\ registry = NoRegistry
    /\ level_rules = <<>>
    /\ regex_level_rules = <<>>
    /\ last = NoOp
    /\ cfg = [max_file_size |-> 0, max_files |-> 0, flush_on_write |-> TRUE]
    /\ sinkUp = [s \in Sinks |-> FALSE]
    /\ file_state = NoState
    /\ file_mutex = NoProc
    /\ disk = [g \in Gens |-> NoFile]
    /\ pc = [p \in Procs |-> "idle"]
    /\ cur = [p \in Procs |-> NoCall]
    /\ calls = 0
    /\ accepted = {}
    /\ discarded = <<>>
    /\ clobbered = <<>>
    /\ rotations = 0
    /\ lock_order = <<>>
    /\ thr = [t \in Procs |-> NotRegistering]
    /\ mtx = <<>>
    /\ state_objs = <<>>
    /\ file_states = <<>>
    /\ file_sinks = <<>>
    /\ limited_items_ = <<>>
    /\ lim_logger = NoLogger
    /\ limited_items = <<>>
    /\ win = <<>>
    /\ lastcall = NoLimited
    /\ sink_objs = <<>>
    /\ logger_objs = <<>>
    /\ registry_ = <<>>
    /\ default_logger_ = NoRef
    /\ reg_order = <<>>
    /\ ret = NoOp

NextMiss ==
    \/ \E t \in Procs, name \in Names : RegisterLookup(t, name)
    \/ \E t \in Procs : RegisterInsert(t)
    \/ \E pattern \in {N_test_debug, P_wild_star}, level \in RuleLevels :
           set_logger_level(pattern, level)
    \/ \E name \in Names : drop_logger(name)

SpecMiss == MissInit /\ [][NextMiss]_vars

\* the tables hold one rule and it matches the name
OnlyRuleMatches(n) ==
    /\ Cardinality(DOMAIN level_rules) + Len(regex_level_rules) = 1
    /\ get_logger_level_rule(n) # Unknown

\* C35: registration and rule insertion do not miss each other: once the
\* calls have returned, a registered logger whose name is matched by the
\* one rule of the tables has that rule's level, in every interleaving.
C35_RuleNotMissed ==
    (\A t \in Procs : thr[t] = NotRegistering) =>
        \A n \in DOMAIN registry :
            OnlyRuleMatches(n) =>
                get_level(registry[n]) = get_logger_level_rule(n)

\* ------------------------------------------------------------------------
\* slog::get_logger(name) by two threads (slog_logger.cpp:854-867): the
\* lookup, the emptiness test, and get_default or default_logger()->clone
\* are separate steps; nothing is held from one to the next
\* ------------------------------------------------------------------------
NotLooking == [pc |-> "idle", name |-> <<>>, res |-> NoRef]

MaxRaceObjs == MaxLoggerObjs + 1

\* the heap after a step of a thread
Leaves(st) ==
    /\ Len(st.lo) <= MaxRaceObjs
    /\ Len(st.so) <= MaxRaceObjs
    /\ sink_objs' = st.so
    /\ logger_objs' = st.lo
    /\ registry_' = st.reg
    /\ default_logger_' = st.def
    /\ reg_order' = st.order
    /\ UNCHANGED <<ret, mtx>>
    /\ UNCHANGED <<fvars, rvars, lvars, svars>>

\* LoggerRegistry::get_logger(name): the entry or nullptr
GetFind(t, name) ==
    /\ thr[t] = NotLooking
    /\ thr' = [thr EXCEPT ![t] =
                  IF name \in DOMAIN registry_
                  THEN [pc |-> "done", name |-> name, res |-> registry_[name]]
                  ELSE [pc |-> "empty", name |-> name, res |-> NoRef]]
    /\ Leaves(St)

\* LoggerRegistry::empty()
GetEmpty(t) ==
    /\ thr[t].pc = "empty"
    /\ thr' = [thr EXCEPT ![t].pc = IF DOMAIN registry_ = {} THEN "create"
                                    ELSE "default"]
    /\ Leaves(St)

\* get_default(name) on the registry that was seen empty
GetCreate(t) ==
    /\ thr[t].pc = "create"
    /\ \E begin \in Begins :
           LET r == R_get_default(St, thr[t].name, begin) IN
           /\ thr' = [thr EXCEPT ![t].pc = "done", ![t].res = r.res]
           /\ Leaves(r.st)

\* default_logger()
GetDefault(t) ==
    /\ thr[t].pc = "default"
    /\ \E begin \in Begins :
           LET r == R_get_default(St, N_default, begin) IN
           /\ thr' = [thr EXCEPT ![t].pc = "clone", ![t].res = r.res]
           /\ Leaves(r.st)

\* ->clone(name) on the default logger
GetClone(t) ==
    /\ thr[t].pc = "clone"
    /\ \E begin \in Begins :
           LET r == R_clone(St, thr[t].res, thr[t].name, begin, Unknown) IN
           /\ thr' = [thr EXCEPT ![t].pc = "done", ![t].res = r.res]
           /\ Leaves(r.st)

LookupInit ==
    /\ sink_objs = <<>>
    /\ logger_objs = <<>>
    /\ registry_ = <<>>
    /\ default_logger_ = NoRef
    /\ reg_order = <<>>
    /\ ret = NoOp
    /\ level_rules = <<>>
    /\ regex_level_rules = <<>>
    /\ registry = NoRegistry
    /\ last = NoOp
    /\ lim_logger = NoLogger
    /\ limited_items = <<>>
    /\ win = <<>>
    /\ lastcall = NoLimited
    /\ cfg = [max_file_size |-> 0, max_files |-> 0, flush_on_write |-> TRUE]
    /\ sinkUp = [s \in Sinks |-> FALSE]
    /\ file_state = NoState
    /\ file_mutex = NoProc
    /\ disk = [g \in Gens |-> NoFile]
    /\ pc = [p \in Procs |-> "idle"]
    /\ cur = [p \in Procs |-> NoCall]
    /\ calls = 0
    /\ accepted = {}
    /\ discarded = <<>>
    /\ clobbered = <<>>
    /\ rotations = 0
    /\ lock_order = <<>>
    /\ thr = [t \in Procs |-> NotLooking]
    /\ mtx = <<>>
    /\ state_objs = <<>>
    /\ file_states = <<>>
    /\ file_sinks = <<>>
    /\ limited_items_ = <<>>

\* another logger is made and registered meanwhile
MakeOther(sink, uninit) ==
    /\ make_logger_ref(N_a, sink, uninit)
    /\ UNCHANGED thr

NextLookup ==
    \/ \E sink \in SinkChoices, uninit \in {Trace, Off} : MakeOther(sink, uninit)
    \/ \E t \in Procs : GetFind(t, N_b)
    \/ \E t \in Procs : GetEmpty(t)
    \/ \E t \in Procs : GetCreate(t)
    \/ \E t \in Procs : GetDefault(t)
    \/ \E t \in Procs : GetClone(t)

SpecLookup == LookupInit /\ [][NextLookup]_vars

Made(name) == {id \in DOMAIN logger_objs : logger_objs[id].name = name}

\* C36: when several threads call get_logger(name) at the same time for a
\* name that is not registered, all of them return the same Logger, its
\* name is the name asked for, and one Logger was made for that name.
C36_SingleValued ==
    (\A t \in Procs : thr[t].pc = "done") =>
        /\ \A t, u \in Procs : thr[t].res = thr[u].res
        /\ \A t \in Procs : logger_objs[thr[t].res].name = thr[t].name
        /\ Cardinality(Made(N_b)) = 1

\* ------------------------------------------------------------------------
\* The default logger and the registry, with get_default in its two lock
\* sections (slog_logger.cpp:480-501). The steps of slog::get_logger are
\* calls a thread can make one by one: the lookup changes nothing,
\* get_default(name) and default_logger() are DefaultBegin, clone(name) on
\* another name is CloneOther; clone under the own name is default_logger()
\* ------------------------------------------------------------------------
\* the heap after one lock section of get_default
Stepped(st, op, name) ==
    /\ Len(st.lo) <= MaxLoggerObjs
    /\ Len(st.so) <= MaxSinkObjs
    /\ sink_objs' = st.so
    /\ logger_objs' = st.lo
    /\ registry_' = st.reg
    /\ default_logger_' = st.def
    /\ reg_order' = st.order
    /\ ret' = [op |-> op, name |-> name, src |-> NoRef, res |-> st.def]
    /\ UNCHANGED mtx
    /\ UNCHANGED <<fvars, rvars, lvars, svars>>

\* get_default up to the end of its lock_guard: the default is returned,
\* or taken from the registry, or made and stored, to be registered next
DefaultBegin(t, logger_name) ==
    /\ thr[t] = NotLooking
    /\ IF default_logger_ # NoRef \/ UseRegistered(St)
       THEN /\ \E begin \in Begins :
                   Returns(R_get_default(St, logger_name, begin),
                           "default_logger", logger_name, NoRef)
       ELSE LET st1 == [St EXCEPT !.so = Append(St.so, NewSink("Stdout", Info, TRUE))]
                st2 == R_Logger(st1, logger_name, <<Len(st1.so)>>, Off)
                st3 == [st2 EXCEPT !.def = Len(st2.lo)] IN
            /\ Stepped(st3, "get_default", logger_name)
            /\ thr' = [thr EXCEPT ![t] = [pc |-> "register",
                                          name |-> logger_name,
                                          res |-> st3.def]]

\* get_default: register_logger(new_default_logger) after the unlock
DefaultRegister(t) ==
    /\ thr[t].pc = "register"
    /\ Stepped(R_register_logger(St, thr[t].res), "default_logger", thr[t].name)
    /\ thr' = [thr EXCEPT ![t] = NotLooking]

\* Logger::clone(logger_name) under another name, with a sink that clones
CloneOther(id, logger_name) ==
    /\ id \in DOMAIN logger_objs
    /\ ~SelfClone(logger_objs[id], logger_name)
    /\ \E j \in DOMAIN logger_objs[id].sinks :
           ~CloneRefused(sink_objs[logger_objs[id].sinks[j]], logger_name)
    /\ clone(id, logger_name)

DefaultInit ==
    /\ sink_objs = <<>>
    /\ logger_objs = <<>>
    /\ registry_ = <<>>
    /\ default_logger_ = NoRef
    /\ reg_order = <<>>
    /\ ret = NoOp
    /\ level_rules = <<>>
    /\ regex_level_rules = <<>>
    /\ registry = NoRegistry
    /\ last = NoOp
    /\ lim_logger = NoLogger
    /\ limited_items = <<>>
    /\ win = <<>>
    /\ lastcall = NoLimited
    /\ cfg = [max_file_size |-> 0, max_files |-> 0, flush_on_write |-> TRUE]
    /\ sinkUp = [s \in Sinks |-> FALSE]
    /\ file_state = NoState
    /\ file_mutex = NoProc
    /\ disk = [g \in Gens |-> NoFile]
    /\ pc = [p \in Procs |-> "idle"]
    /\ cur = [p \in Procs |-> NoCall]
    /\ calls = 0
    /\ accepted = {}
    /\ discarded = <<>>
    /\ clobbered = <<>>
    /\ rotations = 0
    /\ lock_order = <<>>
    /\ thr = [t \in Procs |-> NotLooking]
    /\ mtx = <<>>
    /\ state_objs = <<>>
    /\ file_states = <<>>
    /\ file_sinks = <<>>
    /\ limited_items_ = <<>>

DefaultNames == {N_a, N_default}

NextDefault ==
    \/ \E t \in Procs, name \in DefaultNames : DefaultBegin(t, name)
    \/ \E t \in Procs : DefaultRegister(t)
    \/ \E name \in DefaultNames :
           make_logger_ref(name, NewSink("Stdout", Info, TRUE), Off)
    \/ \E id \in 1..MaxLoggerObjs : register_logger(id)
    \/ \E name \in DefaultNames : set_default_logger(name)
    \/ \E name \in DefaultNames : drop_logger_ref(name)
    \/ \E id \in 1..MaxLoggerObjs, name \in DefaultNames : CloneOther(id, name)

SpecDefault == DefaultInit /\ [][NextDefault]_vars

\* the registry holds an entry under the default logger's name
DefaultRegistered ==
    default_logger_ # NoRef =>
        logger_objs[default_logger_].name \in DOMAIN registry_

\* drop_logger of the default's name leaves no default
DropClearsDefault ==
    (/\ ret'.op = "drop_logger"
     /\ default_logger_ # NoRef
     /\ logger_objs[default_logger_].name = ret'.name) =>
        default_logger_' = NoRef

\* a thread is between the two lock sections of get_default
Registering == {t \in Procs : thr[t].pc = "register"}

\* C37 (as stated): in every reachable state, whatever the interleaving,
\* in which a default logger is set the registry holds an entry under the
\* default logger's name, and drop_logger of the default's name clears the
\* default.
C37_DefaultInRegistry ==
    /\ []DefaultRegistered
    /\ [][DropClearsDefault]_vars

\* C37 (amended): the same in every state in which no thread is inside
\* get_default between making the default logger and registering it.
C37_DefaultInRegistryOnceRegistered ==
    /\ [](Registering = {} => DefaultRegistered)
    /\ [][DropClearsDefault]_vars

\* the default was dropped by name while another logger stays registered
C37_Witness ==
    /\ ret.op = "drop_logger"
    /\ default_logger_ = NoRef
    /\ Registering = {}
    /\ ret.name \notin DOMAIN registry_
    /\ \E id \in DOMAIN logger_objs : logger_objs[id].name = ret.name
    /\ DOMAIN registry_ # {}

\* ------------------------------------------------------------------------
\* LoggerRegistry::get_logger_rules
\* ------------------------------------------------------------------------
\* all_rules[pattern] = level for each pattern rule, in the list's order
RECURSIVE AllRules(_, _)
AllRules(all_rules, regexes) ==
    IF regexes = <<>> THEN all_rules
    ELSE AllRules(PutRule(all_rules, Head(regexes).pattern, Head(regexes).level),
                  Tail(regexes))

\* the map get_logger_rules returns: the exact rules, then the pattern rules
get_logger_rules == AllRules(level_rules, regex_level_rules)

\* a rule with text p decides for the name: p is the name's exact rule, or
\* the name has no exact rule and p is a pattern rule that matches it
RuleMatches(p, n) ==
    IF n \in DOMAIN level_rules THEN p = n
    ELSE \E j \in DOMAIN regex_level_rules :
             /\ regex_level_rules[j].pattern = p
             /\ regex_match(n, regex_level_rules[j].regex)

\* C38: get_logger_rules agrees with rule resolution: the level it reports
\* for a pattern text p is the level get_rule gives to a name that the
\* rules of text p, and no rule of another text, match; also after the
\* same pattern text was set more than once with different levels.
C38_RulesAgreeWithResolution ==
    \A p \in DOMAIN get_logger_rules, n \in Names :
        (/\ RuleMatches(p, n)
         /\ \A q \in DOMAIN get_logger_rules : RuleMatches(q, n) => q = p)
            => get_logger_level_rule(n) = get_logger_rules[p]

\* ------------------------------------------------------------------------
\* Level names: log_level_name, log_level_short_name, log_level_from_name
\* ------------------------------------------------------------------------
brief == <<"T", "D", "I", "W", "E", "O", "N">>

\* log_level_short_name
log_level_short_name(level) ==
    IF level >= 0 /\ level < Len(brief) THEN brief[level + 1] ELSE "-"

Lowered(text) == [i \in DOMAIN text |-> tolower(text[i])]

NamedLevels == {Trace, Debug, Info, Warning, Error}

\* the texts handed to log_level_from_name: the names and the short names
\* as printed, in lower case and capitalised, and texts that are neither
LevelTexts ==
    UNION {{log_level_name(l), Lowered(log_level_name(l)),
            <<Head(log_level_name(l))>> \o Lowered(Tail(log_level_name(l))),
            <<log_level_short_name(l)>>, Lowered(<<log_level_short_name(l)>>)} :
               l \in NamedLevels}
    \cup {level_names[i] : i \in DOMAIN level_names}
    \cup {<<>>, <<"x">>, <<"o">>, <<"O">>, <<"N">>, <<"-">>, <<"t", "r">>,
          <<"o", "f", "f">>, <<"i", "n", "f", "o", "s">>}

AllLevels == NamedLevels \cup {Off, Unknown}

\* slog::log_level_from_name(text, default_level)
from_name(text, default_level) ==
    /\ last' = [op |-> "from_name", name |-> text, dflt |-> default_level,
                level |-> log_level_from_name(text, default_level)]
    /\ UNCHANGED <<registry, level_rules, regex_level_rules>>
    /\ UNCHANGED <<fvars, lvars, hvars, cvars, svars>>

\* slog::log_level_name(level) and slog::log_level_short_name(level)
name_of(level) ==
    /\ last' = [op |-> "name_of", name |-> log_level_name(level),
                dflt |-> Unknown, level |-> level,
                short |-> log_level_short_name(level)]
    /\ UNCHANGED <<registry, level_rules, regex_level_rules>>
    /\ UNCHANGED <<fvars, lvars, hvars, cvars, svars>>

NextNames ==
    \/ \E text \in LevelTexts, default_level \in AllLevels :
           from_name(text, default_level)
    \/ \E level \in AllLevels : name_of(level)

SpecNames == RulesInit /\ [][NextNames]_vars

\* the text is, in some letter case, the name or the short name of l
IsNameOf(text, l) ==
    \/ Lowered(text) = Lowered(log_level_name(l))
    \/ Lowered(text) = Lowered(<<log_level_short_name(l)>>)

\* C39: level names round-trip: log_level_from_name gives L for
\* log_level_name(L) and for the short name of L, in any letter case, for
\* the five levels Trace to Error; every other text, the empty one
\* included, gives the default level.
C39_LevelNamesRoundTrip ==
    last.op = "from_name" =>
        IF \E l \in NamedLevels : IsNameOf(last.name, l)
        THEN IsNameOf(last.name, last.level)
        ELSE last.level = last.dflt

\* ------------------------------------------------------------------------
\* The rotation settings in force on a path: File::log and rotate_files
\* read max_file_size, max_files and flush_on_write from file_state_
\* ------------------------------------------------------------------------
\* the settings File::log of the sink works with (sink_file.cpp:121-134)
InForce(s) == state_objs[file_sinks[s].file_state_].cfg

\* File::log on a sink that was set up: the settings it read
File_log_settings(s) ==
    /\ s \in DOMAIN file_sinks
    /\ file_sinks[s].alive
    /\ file_sinks[s].file_state_ # NoRef
    /\ \A u \in Procs : thr[u].s # s
    /\ mtx[M_file(file_sinks[s].path)] = NoProc
    /\ last' = [op |-> "log", name |-> s, cfg |-> InForce(s)]
    /\ UNCHANGED <<registry, level_rules, regex_level_rules>>
    /\ UNCHANGED <<fvars, lvars, hvars, cvars, svars>>

\* a Logger's constructor sets each of its sinks up once
SetupOnce(t, s) ==
    /\ s \in DOMAIN file_sinks
    /\ file_sinks[s].file_state_ = NoRef
    /\ SetupLock(t, s)

\* the sinks are made by make_file_logger and make_rotating_file_logger in
\* turn
SettingsOf(s) == IF s % 2 = 1 THEN PlainFile ELSE RotatingFile

NextConfig ==
    \/ \E path \in Paths : File_make(path, SettingsOf(Len(file_sinks) + 1))
    \/ \E t \in Procs, s \in FileSinkIds : SetupOnce(t, s)
    \/ \E t \in Procs : SetupFind(t)
    \/ \E t \in Procs, raced \in BOOLEAN : SetupInsert(t, raced)
    \/ \E t \in Procs : SetupOpen(t, TRUE)
    \/ \E s \in FileSinkIds : File_destroy(s)
    \/ \E s \in FileSinkIds : File_log_settings(s)

SpecConfig == SharedInit /\ [][NextConfig]_vars

LiveStates(path) ==
    {i \in DOMAIN state_objs :
        state_objs[i].path = path /\ state_objs[i].owners > 0}

\* C40: while a SharedFileState of a path is live, the settings in force
\* for every sink that writes to the path are those of the sink that
\* created the state; a sink attached later with other settings does not
\* change them and its own settings have no effect.
C40_CreatorSettings ==
    /\ [](\A path \in Paths : \A i \in LiveStates(path), s \in Holders(path) :
             InForce(s) = state_objs[i].cfg)
    /\ [][\A i \in DOMAIN state_objs : state_objs'[i].cfg = state_objs[i].cfg]_vars

====
